---- MODULE Spec2Model ----
(***************************************************************************)
(* East Village Everything: the tag hierarchy store (TagModel), the place  *)
(* repository (PlaceModel) and the database helpers (query,                *)
(* withTransaction) they are written against.                              *)
(*                                                                         *)
(* The relational store is modelled by its committed tables.  A statement  *)
(* sent through query() runs on a pooled connection of its own and commits *)
(* by itself; statements sent through the client of withTransaction()      *)
(* become visible to other connections at COMMIT only.                      *)
(***************************************************************************)
EXTENDS Integers, Sequences, FiniteSets, TLC

(***************************************************************************)
(* Bounds of the model.                                                    *)
(***************************************************************************)
\* uuids the tags table can hand out; an id is never handed out twice
MaxTagId == 3
\* uuids the places table can hand out
MaxPlaceId == 2
\* longest input list of TagModel.bulkSave
MaxBulkLen == 2
\* calls a single request sequence issues in the interleaved specifications
MaxCalls == 1

\* SQL NULL / JavaScript null
NULL == 0
\* JavaScript undefined: a field the caller's object does not carry
UNDEF == -1
UNDEF_S == "undefined"

TagIds == 1..MaxTagId
PlaceIds == 1..MaxPlaceId

\* tags.value, tags.display, tags.sort_order as the admin enters them
Values == {"food", "pizza", "bar"}
Displays == {"Food", "Pizza"}
SortOrders == {0, 1}

VARIABLES
  tags,        \* table tags: id -> row
  nextTagId,   \* next uuid_generate_v4() of table tags
  places,      \* table places: id -> row
  nextPlaceId, \* next uuid_generate_v4() of table places
  place_tags,  \* table place_tags: set of <<place_id, tag_id>>
  last,        \* the last completed repository call and what it returned
               \* (none while a call through withTransaction is in flight)
  pc,          \* interleaved requests: the statement each request is at
  req          \* interleaved requests: the locals of each request's call

store == <<tags, nextTagId, places, nextPlaceId, place_tags>>
vars == <<tags, nextTagId, places, nextPlaceId, place_tags, last, pc, req>>

(***************************************************************************)
(* Table tags, statement by statement.                                     *)
(***************************************************************************)

\* Tag, as a row of table tags (created_at / updated_at left out)
Tag(value, display, sort_order, parent_tag_id, has_children) ==
  [value |-> value, display |-> display, sort_order |-> sort_order,
   parent_tag_id |-> parent_tag_id, has_children |-> has_children]

\* SELECT ... FROM tags WHERE id = $1: result.rows, each row with its id
TagModel_findById(t, id) ==
  {[id |-> i, row |-> t[i]] : i \in DOMAIN t \cap {id}}

\* SELECT ... FROM tags WHERE value = $1: the ids of the matching rows
TagModel_findByValue(t, value) ==
  {i \in DOMAIN t : t[i].value = value}

\* the rows a statement's EXISTS(SELECT 1 FROM tags WHERE parent_tag_id = $1) sees
ChildrenOf(t, id) ==
  {j \in DOMAIN t : t[j].parent_tag_id = id}

\* a mutation of updateHasChildren: the flag is only ever raised
updateHasChildren_OnlyRaise(t, tagId) ==
  [i \in DOMAIN t |->
     IF i = tagId /\ ChildrenOf(t, tagId) # {}
       THEN [t[i] EXCEPT !.has_children = TRUE]
       ELSE t[i]]

\* UPDATE tags SET has_children = EXISTS(...) WHERE id = $1
TagModel_updateHasChildren(t, tagId) ==
  [i \in DOMAIN t |->
     IF i = tagId
       THEN [t[i] EXCEPT !.has_children = (ChildrenOf(t, tagId) # {})]
       ELSE t[i]]

\* a mutation of table tags: no unique constraint on value
UniqueValueOK_Off(t, self, value) == TRUE

\* tags.value UNIQUE, for a row inserted or updated under id `self`
UniqueValueOK(t, self, value) ==
  \A j \in DOMAIN t : j # self => t[j].value # value

\* tags.parent_tag_id REFERENCES tags
ParentFkOK(t, parent_tag_id) ==
  parent_tag_id # NULL => parent_tag_id \in DOMAIN t

\* `x || null` for an id parameter
OrNull(x) == IF x = UNDEF THEN NULL ELSE x

\* INSERT INTO tags (value, display, sort_order, parent_tag_id): the table
\* after the insert; has_children takes its column default, false
InsertTag(t, id, data) ==
  (id :> Tag(data.value, data.display, data.sort_order,
             OrNull(data.parent_tag_id), FALSE)) @@ t

\* the patch's fields tested for truth instead of `!== undefined`: a
\* sort_order of 0 and a parent_tag_id of null are skipped
PatchedTag_TruthyOnly(row, data) ==
  [row EXCEPT
     !.value = IF data.value # UNDEF_S THEN data.value ELSE @,
     !.display = IF data.display # UNDEF_S THEN data.display ELSE @,
     !.sort_order = IF data.sort_order \notin {UNDEF, 0} THEN data.sort_order ELSE @,
     !.parent_tag_id = IF data.parent_tag_id \notin {UNDEF, NULL}
                         THEN data.parent_tag_id ELSE @]

\* the row of an UPDATE tags SET <the patch's fields> WHERE id = $n:
\* a field is assigned when `data.<field> !== undefined`
PatchedTag(row, data) ==
  [row EXCEPT
     !.value = IF data.value # UNDEF_S THEN data.value ELSE @,
     !.display = IF data.display # UNDEF_S THEN data.display ELSE @,
     !.sort_order = IF data.sort_order # UNDEF THEN data.sort_order ELSE @,
     !.parent_tag_id = IF data.parent_tag_id # UNDEF
                         THEN OrNull(data.parent_tag_id) ELSE @]

\* `updates.length === 0`: the patch supplies no field
EmptyTagPatch(data) ==
  /\ data.value = UNDEF_S /\ data.display = UNDEF_S
  /\ data.sort_order = UNDEF /\ data.parent_tag_id = UNDEF

\* the tags removed by DELETE FROM tags WHERE id = ANY(ids): the rows named
\* and, through parent_tag_id ... ON DELETE CASCADE, all their descendants
RECURSIVE CascadeSet(_, _)
CascadeSet(t, ids) ==
  LET more == ids \cup {j \in DOMAIN t : t[j].parent_tag_id \in ids}
  IN IF more = ids THEN ids ELSE CascadeSet(t, more)

\* DELETE FROM tags WHERE id = ANY(ids): table tags afterwards
DeleteTags(t, ids) ==
  LET gone == CascadeSet(t, ids \cap DOMAIN t)
  IN [i \in DOMAIN t \ gone |-> t[i]]

\* a mutation of the junction table's foreign key: no ON DELETE CASCADE
CascadePlaceTags_None(pt, remainingTags) == pt

\* place_tags after tags `gone` were deleted (tag_id ... ON DELETE CASCADE)
CascadePlaceTags(pt, remainingTags) ==
  {r \in pt : r[2] \in remainingTags}

(***************************************************************************)
(* Inputs.                                                                 *)
(***************************************************************************)

\* TagInput: parent_tag_id is optional
TagInputs ==
  [value : Values, display : Displays, sort_order : SortOrders,
   parent_tag_id : TagIds \cup {NULL, UNDEF}]

\* Partial<TagInput>: every field is optional
TagPatches ==
  [value : Values \cup {UNDEF_S}, display : Displays \cup {UNDEF_S},
   sort_order : SortOrders \cup {UNDEF},
   parent_tag_id : TagIds \cup {NULL, UNDEF}]

\* The inputs of the specifications about the parent links: every value and
\* every parent, with display and sort_order held to one label ("Food", 0)
HierarchyInputs ==
  {d \in TagInputs : d.display = "Food" /\ d.sort_order = 0
                     /\ d.parent_tag_id # UNDEF}
HierarchyPatches ==
  {d \in TagPatches : d.display \in {"Food", UNDEF_S}
                      /\ d.sort_order \in {0, UNDEF}}

\* The patches of an edit that moves a tag in the hierarchy and leaves its
\* other fields alone
ReparentPatches ==
  {d \in TagPatches : d.value = UNDEF_S /\ d.display = UNDEF_S
                      /\ d.sort_order = UNDEF}

\* The rows given to bulkSave: two of the values, each row's display and
\* sort_order one of two labels; a row names no parent (the tag editor's
\* form) or the first tag created (PUT /api/tags passes the request body on
\* as it is)
BulkInputs ==
  {d \in TagInputs : /\ d.value \in {"food", "pizza"}
                     /\ <<d.display, d.sort_order>> \in {<<"Food", 0>>, <<"Pizza", 1>>}
                     /\ d.parent_tag_id \in {UNDEF, 1}}

\* the input lists of bulkSave, up to MaxBulkLen rows
BulkLists ==
  UNION {[1..n -> BulkInputs] : n \in 0..MaxBulkLen}

(***************************************************************************)
(* What a call returned.                                                   *)
(***************************************************************************)
RetNull == [kind |-> "null"]
RetBool(b) == [kind |-> "boolean", val |-> b]
\* a tag row; the callers test it for presence only
RetTag(id, row) == [kind |-> "tag"]
RetRows == [kind |-> "rows"]

\* a call that ran to its return statement
Returned(op, found, ret, changed) ==
  [op |-> op, outcome |-> "returned", found |-> found, ret |-> ret,
   changed |-> changed, id |-> NULL, input |-> <<>>, repeat |-> FALSE, first |-> {},
   wrote |-> FALSE, removed |-> <<{}, {}>>,
   stamped |-> FALSE]

\* a call whose query rejected: the error propagates to the caller
Threw(op, found, changed) ==
  [op |-> op, outcome |-> "threw", found |-> found, ret |-> RetNull,
   changed |-> changed, id |-> NULL, input |-> <<>>, repeat |-> FALSE, first |-> {},
   wrote |-> FALSE, removed |-> <<{}, {}>>,
   stamped |-> FALSE]

NoCall == [op |-> "none", outcome |-> "none", found |-> FALSE, ret |-> RetNull,
           changed |-> FALSE, id |-> NULL, input |-> <<>>, repeat |-> FALSE, first |-> {},
   wrote |-> FALSE, removed |-> <<{}, {}>>,
   stamped |-> FALSE]

\* the call ran an UPDATE whose SET list ends with updated_at = NOW(): the
\* record it addressed carries the time of the call
Stamped(ret) == [ret EXCEPT !.stamped = TRUE]

\* bulkSave's loop ran its UPDATE branch: a row of the list has the value of
\* a tag read by the first SELECT
BulkUpdates(existing, L) ==
  \E k \in 1..Len(L) : \E i \in DOMAIN existing : existing[i].value = L[k].value

(***************************************************************************)
(* TagModel, one call at a time.                                           *)
(***************************************************************************)

\* TagModel.create(data)
TagModel_create(data) ==
  LET id == nextTagId
      parent == OrNull(data.parent_tag_id)
      inserted == InsertTag(tags, id, data)
  IN /\ IF UniqueValueOK(tags, id, data.value) /\ ParentFkOK(tags, parent)
          THEN /\ nextTagId <= MaxTagId
               /\ tags' = IF parent # NULL
                            THEN TagModel_updateHasChildren(inserted, parent)
                            ELSE inserted
               /\ nextTagId' = nextTagId + 1
               /\ last' = Returned("TagModel.create", FALSE,
                                   RetTag(id, inserted[id]), TRUE)
          ELSE /\ UNCHANGED <<tags, nextTagId>>
               /\ last' = Threw("TagModel.create", FALSE, FALSE)
     /\ UNCHANGED <<places, nextPlaceId, place_tags, pc, req>>

\* TagModel.update(id, data)
TagModel_update(id, data) ==
  LET oldTag == TagModel_findById(tags, id)
      newParentId == OrNull(data.parent_tag_id)
      updated == [tags EXCEPT ![id] = PatchedTag(@, data)]
      oldParentId == tags[id].parent_tag_id
      afterOld == IF oldParentId # NULL
                    THEN TagModel_updateHasChildren(updated, oldParentId)
                    ELSE updated
      afterNew == IF newParentId # NULL
                    THEN TagModel_updateHasChildren(afterOld, newParentId)
                    ELSE afterOld
  IN /\ IF oldTag = {}
          THEN /\ UNCHANGED tags
               /\ last' = Returned("TagModel.update", FALSE, RetNull, FALSE)
          ELSE IF EmptyTagPatch(data)
          THEN /\ UNCHANGED tags
               /\ last' = Returned("TagModel.update", TRUE,
                                   RetTag(id, tags[id]), FALSE)
          ELSE IF ~ (/\ UniqueValueOK(tags, id, updated[id].value)
                     /\ ParentFkOK(tags, updated[id].parent_tag_id))
          THEN /\ UNCHANGED tags
               /\ last' = Threw("TagModel.update", TRUE, FALSE)
          ELSE /\ tags' = IF data.parent_tag_id # UNDEF /\ oldParentId # newParentId
                            THEN afterNew
                            ELSE updated
               /\ last' = Stamped(Returned("TagModel.update", TRUE,
                                           RetTag(id, updated[id]), tags' # tags))
     /\ UNCHANGED <<nextTagId, places, nextPlaceId, place_tags, pc, req>>

\* TagModel.delete(id)
TagModel_delete(id) ==
  LET tag == TagModel_findById(tags, id)
      parentId == tags[id].parent_tag_id
      unlinked == {r \in place_tags : r[2] # id}
      deleted == DeleteTags(tags, {id})
  IN /\ IF tag = {}
          THEN /\ UNCHANGED <<tags, place_tags>>
               /\ last' = [Returned("TagModel.delete", FALSE, RetBool(FALSE), FALSE)
                             EXCEPT !.id = id]
          ELSE /\ tags' = IF parentId # NULL
                            THEN TagModel_updateHasChildren(deleted, parentId)
                            ELSE deleted
               /\ place_tags' = CascadePlaceTags(unlinked, DOMAIN deleted)
               /\ last' = [Returned("TagModel.delete", TRUE, RetBool(TRUE), TRUE)
                             EXCEPT !.id = id,
                                    !.removed = <<DOMAIN tags \ DOMAIN deleted,
                                                  place_tags \ place_tags'>>]
     /\ UNCHANGED <<nextTagId, places, nextPlaceId, pc, req>>

\* a mutation of getPotentialParents: no tag is excluded
getPotentialParents_All(t, excludeTagId) == DOMAIN t

\* TagModel.getPotentialParents(excludeTagId): the ids of the rows returned
getPotentialParents(t, excludeTagId) ==
  {i \in DOMAIN t :
     /\ t[i].parent_tag_id = NULL
     /\ excludeTagId # UNDEF =>
          /\ i # excludeTagId
          /\ i \notin {j \in DOMAIN t : t[j].parent_tag_id = excludeTagId}}

\* bulkSave's loop `for (const tag of tags)` from element i on, inside the
\* transaction: st.t is table tags as the transaction sees it, st.next the
\* next uuid, st.ok whether every statement so far succeeded; `existing` is
\* the snapshot `SELECT * FROM tags` taken when bulkSave started.  A uuid
\* the caller names was handed out before the call: an id that is no key of
\* `existing` stands for a uuid of no row, also once the loop has used it.
RECURSIVE BulkUpsert(_, _, _, _)
BulkUpsert(st, existing, L, i) ==
  IF i > Len(L) \/ ~ st.ok THEN st
  ELSE
    LET tag == L[i]
        hit == {j \in DOMAIN existing : existing[j].value = tag.value}
        parent == OrNull(tag.parent_tag_id)
    IN IF hit # {}
         THEN \* UPDATE tags SET display, sort_order WHERE id = existing.id
              LET id == CHOOSE j \in hit : TRUE
                  t2 == [j \in DOMAIN st.t |->
                           IF j = id
                             THEN [st.t[j] EXCEPT !.display = tag.display,
                                                  !.sort_order = tag.sort_order]
                             ELSE st.t[j]]
              IN BulkUpsert([st EXCEPT !.t = t2], existing, L, i + 1)
         ELSE \* INSERT INTO tags (value, display, sort_order, parent_tag_id)
              IF /\ UniqueValueOK(st.t, st.next, tag.value)
                 /\ ParentFkOK(st.t, parent)
                 /\ parent # NULL => parent \in DOMAIN existing
                THEN BulkUpsert([ok |-> TRUE, t |-> InsertTag(st.t, st.next, tag),
                                 next |-> st.next + 1], existing, L, i + 1)
                ELSE [st EXCEPT !.ok = FALSE]

\* the statements of bulkSave's callback on the transaction's client
BulkSaveTxn(t, next, L) ==
  LET newValues == {L[i].value : i \in 1..Len(L)}
      toDelete == {j \in DOMAIN t : t[j].value \notin newValues}
      afterDelete == IF toDelete # {} THEN DeleteTags(t, toDelete) ELSE t
      st == BulkUpsert([ok |-> TRUE, t |-> afterDelete, next |-> next], t, L, 1)
  IN [ok |-> st.ok, t |-> st.t, next |-> st.next, kept |-> DOMAIN afterDelete]

\* bulkSave: the rows of `existing` whose value the input list lacks
BulkToDelete(existing, L) ==
  {j \in DOMAIN existing : existing[j].value \notin {L[k].value : k \in 1..Len(L)}}

\* the statements of bulkSave's callback when the snapshot `existing` was
\* read from table tags earlier than the DELETE and the upserts run on `t`
BulkSaveTxnFrom(existing, t, next, L) ==
  LET toDelete == BulkToDelete(existing, L)
      afterDelete == IF toDelete # {} THEN DeleteTags(t, toDelete) ELSE t
      st == BulkUpsert([ok |-> TRUE, t |-> afterDelete, next |-> next], existing, L, 1)
  IN [ok |-> st.ok, t |-> st.t, next |-> st.next, kept |-> DOMAIN afterDelete]

\* the tag set "by value, display, sort_order"
TagSet(t) ==
  {<<t[i].value, t[i].display, t[i].sort_order>> : i \in DOMAIN t}

\* TagModel.bulkSave(tags): BEGIN, the callback, COMMIT; ROLLBACK when a
\* statement of the callback rejected
TagModel_bulkSave(L) ==
  \E txn \in {BulkSaveTxn(tags, nextTagId, L)},
     again \in {last.op = "TagModel.bulkSave" /\ last.outcome = "returned"
                /\ last.input = L} :
     /\ txn.next <= MaxTagId + 1
     /\ IF txn.ok
          THEN /\ tags' = txn.t
               /\ nextTagId' = txn.next
               /\ place_tags' = CascadePlaceTags(place_tags, txn.kept)
               /\ last' = [Returned("TagModel.bulkSave", TRUE, RetRows,
                                    tags' # tags \/ place_tags' # place_tags)
                           EXCEPT !.input = L, !.repeat = again,
                                  !.first = IF again THEN TagSet(tags) ELSE {},
                                  !.stamped = BulkUpdates(tags, L)]
          ELSE /\ UNCHANGED <<tags, nextTagId, place_tags>>
               /\ last' = [Threw("TagModel.bulkSave", TRUE, FALSE)
                           EXCEPT !.input = L]
     /\ UNCHANGED <<places, nextPlaceId, pc, req>>

(***************************************************************************)
(* The requests in flight.                                                 *)
(***************************************************************************)
Requests == {1, 2}

Idle == [r \in Requests |-> "idle"]
NoLocals == [r \in Requests |->
               [calls |-> 0, op |-> "none", id |-> NULL, data |-> <<>>, old |-> {},
                pre |-> <<>>, ret |-> RetNull]]

\* the locals of request r once its call is over
Finished(r) == [NoLocals[r] EXCEPT !.calls = req[r].calls]

(***************************************************************************)
(* TagModel statement by statement: concurrent requests.  Every statement  *)
(* of TagModel.create / update / delete goes through query(), that is      *)
(* pool.query(): it runs on a connection of its own and commits when it    *)
(* returns, so the other requests' statements may run between any two of   *)
(* them.  pc[r] names the statement request r runs next.                   *)
(***************************************************************************)

\* request r goes on to statement `label`
Goto(r, label) == pc' = [pc EXCEPT ![r] = label]

\* request r's call is over: it returned, or its error reached the caller
Done(r, result) ==
  /\ pc' = [pc EXCEPT ![r] = "idle"]
  /\ last' = result

\* whether request r's call has changed the tables since it was issued
ChangedSince(r, t, pt) == <<t, pt>> # req[r].pre

\* a route handler calls TagModel.<op>(id, data)
Call(r, op, id, data) ==
  /\ pc[r] = "idle"
  /\ req[r].calls < MaxCalls
  /\ req' = [req EXCEPT ![r] = [calls |-> req[r].calls + 1, op |-> op, id |-> id,
                                data |-> data, old |-> {},
                                pre |-> <<tags, place_tags>>, ret |-> RetNull]]
  /\ Goto(r, op)
  /\ UNCHANGED <<store, last>>

\* TagModel.create: INSERT INTO tags ... RETURNING
create_insert(r) ==
  LET data == req[r].data
      parent == OrNull(data.parent_tag_id)
  IN /\ pc[r] = "TagModel.create"
     /\ IF UniqueValueOK(tags, nextTagId, data.value) /\ ParentFkOK(tags, parent)
          THEN /\ nextTagId <= MaxTagId
               /\ tags' = InsertTag(tags, nextTagId, data)
               /\ nextTagId' = nextTagId + 1
               /\ IF parent # NULL
                    THEN Goto(r, "create:updateHasChildren") /\ UNCHANGED last
                    ELSE Done(r, Returned("TagModel.create", FALSE,
                                          RetTag(nextTagId, tags'[nextTagId]), TRUE))
          ELSE /\ UNCHANGED <<tags, nextTagId>>
               /\ Done(r, Threw("TagModel.create", FALSE, FALSE))
     /\ UNCHANGED <<places, nextPlaceId, place_tags, req>>

\* TagModel.create: await TagModel.updateHasChildren(data.parent_tag_id)
create_updateHasChildren(r) ==
  /\ pc[r] = "create:updateHasChildren"
  /\ tags' = TagModel_updateHasChildren(tags, req[r].data.parent_tag_id)
  /\ Done(r, Returned("TagModel.create", FALSE, RetTag(NULL, NULL), TRUE))
  /\ UNCHANGED <<nextTagId, places, nextPlaceId, place_tags, req>>

\* TagModel.update: const oldTag = await TagModel.findById(id), and the
\* construction of the SET clauses
update_findById(r) ==
  LET oldTag == TagModel_findById(tags, req[r].id)
  IN /\ pc[r] = "TagModel.update"
     /\ IF oldTag = {}
          THEN Done(r, Returned("TagModel.update", FALSE, RetNull, FALSE))
               /\ UNCHANGED req
          ELSE IF EmptyTagPatch(req[r].data)
          THEN Done(r, Returned("TagModel.update", TRUE,
                                RetTag(req[r].id, tags[req[r].id]), FALSE))
               /\ UNCHANGED req
          ELSE /\ req' = [req EXCEPT ![r].old = oldTag]
               /\ Goto(r, "update:UPDATE")
               /\ UNCHANGED last
     /\ UNCHANGED store

\* the statement TagModel.update runs after its UPDATE, given the parent
\* it read into oldTag before: none ("return") when the parent is no part
\* of the patch or did not change
AfterUpdate(data, oldParentId) ==
  LET newParentId == OrNull(data.parent_tag_id)
  IN IF data.parent_tag_id # UNDEF /\ oldParentId # newParentId
       THEN IF oldParentId # NULL THEN "update:updateHasChildren(old)"
            ELSE IF newParentId # NULL THEN "update:updateHasChildren(new)"
            ELSE "return"
       ELSE "return"

\* TagModel.update: UPDATE tags SET ... WHERE id = $n RETURNING ...
update_UPDATE(r) ==
  LET id == req[r].id
      data == req[r].data
      oldParentId == (CHOOSE o \in req[r].old : TRUE).row.parent_tag_id
      next == AfterUpdate(data, oldParentId)
      matched == id \in DOMAIN tags
      patched == PatchedTag(tags[id], data)
      ret == IF matched THEN RetTag(id, patched) ELSE RetNull
  IN /\ pc[r] = "update:UPDATE"
     /\ IF matched /\ ~ (/\ UniqueValueOK(tags, id, patched.value)
                         /\ ParentFkOK(tags, patched.parent_tag_id))
          THEN /\ UNCHANGED <<tags, req>>
               /\ Done(r, Threw("TagModel.update", TRUE, ChangedSince(r, tags, place_tags)))
          ELSE /\ tags' = IF matched THEN [tags EXCEPT ![id] = patched] ELSE tags
               /\ IF next = "return"
                    THEN Done(r, Stamped(Returned("TagModel.update", TRUE, ret,
                                                  ChangedSince(r, tags', place_tags))))
                         /\ UNCHANGED req
                    ELSE /\ Goto(r, next)
                         /\ req' = [req EXCEPT ![r].ret = ret]
                         /\ UNCHANGED last
     /\ UNCHANGED <<nextTagId, places, nextPlaceId, place_tags>>

\* TagModel.update: await TagModel.updateHasChildren(oldParentId)
update_updateHasChildren_old(r) ==
  LET oldParentId == (CHOOSE o \in req[r].old : TRUE).row.parent_tag_id
  IN /\ pc[r] = "update:updateHasChildren(old)"
     /\ tags' = TagModel_updateHasChildren(tags, oldParentId)
     /\ IF OrNull(req[r].data.parent_tag_id) # NULL
          THEN Goto(r, "update:updateHasChildren(new)") /\ UNCHANGED last
          ELSE Done(r, Stamped(Returned("TagModel.update", TRUE, req[r].ret,
                                        ChangedSince(r, tags', place_tags))))
     /\ UNCHANGED <<nextTagId, places, nextPlaceId, place_tags, req>>

\* TagModel.update: await TagModel.updateHasChildren(newParentId)
update_updateHasChildren_new(r) ==
  /\ pc[r] = "update:updateHasChildren(new)"
  /\ tags' = TagModel_updateHasChildren(tags, OrNull(req[r].data.parent_tag_id))
  /\ Done(r, Stamped(Returned("TagModel.update", TRUE, req[r].ret,
                              ChangedSince(r, tags', place_tags))))
  /\ UNCHANGED <<nextTagId, places, nextPlaceId, place_tags, req>>

\* TagModel.delete: const tag = await TagModel.findById(id)
delete_findById(r) ==
  LET tag == TagModel_findById(tags, req[r].id)
  IN /\ pc[r] = "TagModel.delete"
     /\ IF tag = {}
          THEN Done(r, Returned("TagModel.delete", FALSE, RetBool(FALSE), FALSE))
               /\ UNCHANGED req
          ELSE /\ req' = [req EXCEPT ![r].old = tag]
               /\ Goto(r, "delete:place_tags")
               /\ UNCHANGED last
     /\ UNCHANGED store

\* TagModel.delete: DELETE FROM place_tags WHERE tag_id = $1
delete_place_tags(r) ==
  /\ pc[r] = "delete:place_tags"
  /\ place_tags' = {row \in place_tags : row[2] # req[r].id}
  /\ Goto(r, "delete:tags")
  /\ UNCHANGED <<tags, nextTagId, places, nextPlaceId, last, req>>

\* TagModel.delete: DELETE FROM tags WHERE id = $1
delete_tags(r) ==
  LET parentId == (CHOOSE o \in req[r].old : TRUE).row.parent_tag_id
      ret == RetBool(req[r].id \in DOMAIN tags)
  IN /\ pc[r] = "delete:tags"
     /\ tags' = DeleteTags(tags, {req[r].id})
     /\ place_tags' = CascadePlaceTags(place_tags, DOMAIN tags')
     /\ IF parentId # NULL
          THEN /\ Goto(r, "delete:updateHasChildren")
               /\ req' = [req EXCEPT ![r].ret = ret]
               /\ UNCHANGED last
          ELSE /\ Done(r, Returned("TagModel.delete", TRUE, ret,
                                   ChangedSince(r, tags', place_tags')))
               /\ UNCHANGED req
     /\ UNCHANGED <<nextTagId, places, nextPlaceId>>

\* TagModel.delete: await TagModel.updateHasChildren(parentId)
delete_updateHasChildren(r) ==
  LET parentId == (CHOOSE o \in req[r].old : TRUE).row.parent_tag_id
  IN /\ pc[r] = "delete:updateHasChildren"
     /\ tags' = TagModel_updateHasChildren(tags, parentId)
     /\ Done(r, Returned("TagModel.delete", TRUE, req[r].ret,
                         ChangedSince(r, tags', place_tags)))
     /\ UNCHANGED <<nextTagId, places, nextPlaceId, place_tags, req>>

\* the statement request r is at rejects (pool.query rejects when no
\* connection is to be had within connectionTimeoutMillis, or the connection
\* breaks): the statement has no effect, and as TagModel catches nothing the
\* error reaches the caller with the earlier statements committed
Reject(r) ==
  /\ pc[r] # "idle"
  /\ Done(r, Threw(req[r].op, req[r].old # {}, ChangedSince(r, tags, place_tags)))
  /\ UNCHANGED <<store, req>>

\* one statement of request r
Statement(r) ==
  \/ create_insert(r)
  \/ create_updateHasChildren(r)
  \/ update_findById(r)
  \/ update_UPDATE(r)
  \/ update_updateHasChildren_old(r)
  \/ update_updateHasChildren_new(r)
  \/ delete_findById(r)
  \/ delete_place_tags(r)
  \/ delete_tags(r)
  \/ delete_updateHasChildren(r)

(***************************************************************************)
(* Table places and PlaceModel.  A text the code works on character by     *)
(* character (phone, notes) is a sequence of characters; url and           *)
(* categories are stored the way address is, specials the way notes is.    *)
(***************************************************************************)

\* null and undefined of a text kept as a sequence of characters, and of a
\* list of tag values
NULL_T == <<"null">>
UNDEF_T == <<"undefined">>
\* SQL NULL of a varchar kept as a string
NULL_S == "null"

Digits == {"0", "1", "2", "3", "4", "5", "6", "7", "8", "9"}
IsDigit(c) == c \in Digits

\* the digits are kept however many remain
normalizePhone_AnyLength(phone) ==
  IF phone = UNDEF_T \/ phone = <<>>
    THEN NULL_T
    ELSE SelectSeq(phone, IsDigit)

\* normalizePhone: digits only, kept when exactly 10 of them remain
normalizePhone(phone) ==
  IF phone = UNDEF_T \/ phone = <<>>
    THEN NULL_T
    ELSE LET digits == SelectSeq(phone, IsDigit)
         IN IF Len(digits) = 10 THEN digits ELSE NULL_T

\* text.replace(/\r?\n/g, '<br/>')
RECURSIVE ReplaceNewlines(_)
ReplaceNewlines(text) ==
  IF text = <<>> THEN <<>>
  ELSE IF Len(text) >= 2 /\ text[1] = "CR" /\ text[2] = "LF"
    THEN <<"<", "b", "r", "/", ">">> \o ReplaceNewlines(SubSeq(text, 3, Len(text)))
  ELSE IF text[1] = "LF"
    THEN <<"<", "b", "r", "/", ">">> \o ReplaceNewlines(Tail(text))
  ELSE <<text[1]>> \o ReplaceNewlines(Tail(text))

\* toHtmlBreaks
toHtmlBreaks(text) ==
  IF text = UNDEF_T \/ text = <<>> THEN NULL_T ELSE ReplaceNewlines(text)

\* data.address || null
OrNullS(x) == IF x = UNDEF_S \/ x = "" THEN NULL_S ELSE x

\* the row INSERT INTO places stores for a PlaceInput
PlaceRow(data) ==
  [name |-> data.name, address |-> OrNullS(data.address),
   phone |-> normalizePhone(data.phone), notes |-> toHtmlBreaks(data.notes)]

\* the row UPDATE places SET ... leaves: only the fields of the patch
PatchedPlace(row, data) ==
  [row EXCEPT !.name = IF data.name # UNDEF_S THEN data.name ELSE @,
              !.address = IF data.address # UNDEF_S THEN OrNullS(data.address) ELSE @,
              !.phone = IF data.phone # UNDEF_T THEN normalizePhone(data.phone) ELSE @,
              !.notes = IF data.notes # UNDEF_T THEN toHtmlBreaks(data.notes) ELSE @]

\* updates.length > 1: the patch carries a column besides updated_at
HasColumns(data) ==
  \/ data.name # UNDEF_S
  \/ data.address # UNDEF_S
  \/ data.phone # UNDEF_T
  \/ data.notes # UNDEF_T

\* the values of a tag list
ListValues(tagValues) == {tagValues[k] : k \in 1..Len(tagValues)}

\* the rows of the place are kept and the new ones added: an incremental
\* setTags
setTags_KeepsOld(p, pt, t, placeId, tagValues) ==
  LET tagIds == {i \in DOMAIN t : t[i].value \in ListValues(tagValues)}
  IN IF tagIds # {} /\ placeId \notin DOMAIN p
       THEN [ok |-> FALSE, pt |-> pt]
       ELSE [ok |-> TRUE, pt |-> pt \cup {<<placeId, i>> : i \in tagIds}]

\* PlaceModel.setTags on the client of the transaction: DELETE the place's
\* rows, then INSERT ... SELECT $1, id FROM tags WHERE value = ANY($2).
\* ok is FALSE when an inserted row violates the foreign key on place_id.
setTags(p, pt, t, placeId, tagValues) ==
  LET removed == {row \in pt : row[1] # placeId}
      tagIds == {i \in DOMAIN t : t[i].value \in ListValues(tagValues)}
  IN IF Len(tagValues) = 0
       THEN [ok |-> TRUE, pt |-> removed]
       ELSE IF tagIds # {} /\ placeId \notin DOMAIN p
         THEN [ok |-> FALSE, pt |-> removed]
         ELSE [ok |-> TRUE, pt |-> removed \cup {<<placeId, i>> : i \in tagIds}]

\* PlaceModel.findById on the tables a pooled connection sees: the place
\* with the values of its tags (array_agg), or no row
PlaceModel_findById(p, pt, t, id) ==
  {[id |-> i, row |-> p[i],
    tags |-> {t[row[2]].value : row \in {x \in pt : x[1] = i /\ x[2] \in DOMAIN t}}]
     : i \in DOMAIN p \cap {id}}

RetPlace(rows) ==
  IF rows = {} THEN RetNull
  ELSE LET place == CHOOSE x \in rows : TRUE
       IN [kind |-> "place", id |-> place.id, row |-> place.row, tags |-> place.tags]

PlaceInputs ==
  [name : {"Joe's Bar", "Ray's"},
   address : {UNDEF_S, "", "1 Ave A"},
   phone : {UNDEF_T, <<>>,
            <<"(", "2", "1", "2", ")", " ", "5", "5", "5", "-", "1", "2", "3", "4">>,
            <<"5", "5", "5", "-", "1", "2", "3", "4">>},
   notes : {UNDEF_T, <<>>, <<"a", "LF", "b">>, <<"a", "CR", "LF", "b">>},
   tags : {UNDEF_T, <<>>, <<"food">>, <<"pizza", "food">>, <<"bar">>}]

PlacePatches ==
  [name : {UNDEF_S, "Joe's Bar", "Ray's"},
   address : {UNDEF_S, "", "1 Ave A"},
   phone : {UNDEF_T, <<>>,
            <<"(", "2", "1", "2", ")", " ", "5", "5", "5", "-", "1", "2", "3", "4">>,
            <<"5", "5", "5", "-", "1", "2", "3", "4">>},
   notes : {UNDEF_T, <<>>, <<"a", "LF", "b">>, <<"a", "CR", "LF", "b">>},
   tags : {UNDEF_T, <<>>, <<"food">>, <<"pizza", "food">>, <<"bar">>}]

\* PlaceModel.findById(id) called by a route
PlaceModel_findById_call(id) ==
  LET rows == PlaceModel_findById(places, place_tags, tags, id)
  IN /\ last' = Returned("PlaceModel.findById", rows # {}, RetPlace(rows), FALSE)
     /\ UNCHANGED <<store, pc, req>>

\* TagModel.findById(id) called by a route
TagModel_findById_call(id) ==
  LET rows == TagModel_findById(tags, id)
  IN /\ last' = Returned("TagModel.findById", rows # {},
                         IF rows = {} THEN RetNull ELSE RetTag(id, tags[id]), FALSE)
     /\ UNCHANGED <<store, pc, req>>

\* PlaceModel.create: withTransaction(INSERT INTO places; setTags on the
\* client), the re-read PlaceModel.findById through query() - a pooled
\* connection, which sees the committed tables - and then COMMIT
PlaceModel_create(data) ==
  LET id == nextPlaceId
      inserted == (id :> PlaceRow(data)) @@ places
      st == IF data.tags # UNDEF_T /\ Len(data.tags) > 0
              THEN setTags(inserted, place_tags, tags, id, data.tags)
              ELSE [ok |-> TRUE, pt |-> place_tags]
      reread == PlaceModel_findById(places, place_tags, tags, id)
  IN /\ IF data.name = UNDEF_S
          \* the INSERT violates NOT NULL on places.name: ROLLBACK
          THEN /\ UNCHANGED <<places, nextPlaceId, place_tags>>
               /\ last' = [Threw("PlaceModel.create", FALSE, FALSE)
                             EXCEPT !.input = data]
          ELSE /\ nextPlaceId <= MaxPlaceId
               /\ nextPlaceId' = nextPlaceId + 1
               /\ places' = inserted
               /\ place_tags' = st.pt
               /\ last' = [Returned("PlaceModel.create", FALSE, RetPlace(reread), TRUE)
                             EXCEPT !.input = data, !.id = id]
     /\ UNCHANGED <<tags, nextTagId, pc, req>>

\* PlaceModel.update: withTransaction(UPDATE places ... RETURNING id when
\* the patch has a column, zero rows -> null; setTags when the patch has
\* tags), the re-read through query(), then COMMIT
PlaceModel_update(id, data) ==
  LET found == id \in DOMAIN places
      updated == IF HasColumns(data) /\ found
                   THEN [places EXCEPT ![id] = PatchedPlace(places[id], data)]
                   ELSE places
      st == IF data.tags # UNDEF_T
              THEN setTags(updated, place_tags, tags, id, data.tags)
              ELSE [ok |-> TRUE, pt |-> place_tags]
      reread == PlaceModel_findById(places, place_tags, tags, id)
  IN /\ IF HasColumns(data) /\ ~ found
          THEN /\ UNCHANGED <<places, place_tags>>
               /\ last' = [Returned("PlaceModel.update", found, RetNull, FALSE)
                             EXCEPT !.input = data, !.id = id]
          ELSE IF st.ok
          THEN /\ places' = updated
               /\ place_tags' = st.pt
               /\ last' = [Returned("PlaceModel.update", found, RetPlace(reread),
                                    <<places', place_tags'>> # <<places, place_tags>>)
                             EXCEPT !.input = data, !.id = id,
                                    !.stamped = HasColumns(data)]
          ELSE /\ UNCHANGED <<places, place_tags>>
               /\ last' = [Threw("PlaceModel.update", found, FALSE)
                             EXCEPT !.input = data, !.id = id]
     /\ UNCHANGED <<tags, nextTagId, nextPlaceId, pc, req>>

\* PlaceModel.delete: DELETE FROM places WHERE id = $1 (place_tags rows
\* cascade)
PlaceModel_delete(id) ==
  LET found == id \in DOMAIN places
  IN /\ places' = [i \in DOMAIN places \ {id} |-> places[i]]
     /\ place_tags' = {row \in place_tags : row[1] # id}
     /\ last' = [Returned("PlaceModel.delete", found, RetBool(found), found)
                   EXCEPT !.id = id,
                          !.removed = <<{}, place_tags \ place_tags'>>]
     /\ UNCHANGED <<tags, nextTagId, nextPlaceId, pc, req>>

(***************************************************************************)
(* The tag routes, concurrently.  POST /tags and POST /tags/:id look the   *)
(* value up with TagModel.findByValue before they call TagModel.create /   *)
(* update; the tag editor calls TagModel.bulkSave without a lookup.  The   *)
(* rows a transaction writes are locked until COMMIT, so the DELETE and    *)
(* the upserts of bulkSave take effect together, after the snapshot        *)
(* SELECT * FROM tags that decides between UPDATE and INSERT.              *)
(***************************************************************************)

\* POST /tags or POST /tags/:id arrives
CallRoute(r, op, id, data) ==
  /\ pc[r] = "idle"
  /\ req[r].calls < MaxCalls
  /\ req' = [req EXCEPT ![r] = [calls |-> req[r].calls + 1, op |-> op, id |-> id,
                                data |-> data, old |-> {},
                                pre |-> <<tags, place_tags>>, ret |-> RetNull]]
  /\ Goto(r, "route:findByValue")
  /\ UNCHANGED <<store, last>>

\* const existing = await TagModel.findByValue(value.trim()); the form is
\* rendered again with an error when the value is taken (by another tag,
\* for POST /tags/:id)
route_findByValue(r) ==
  LET existing == TagModel_findByValue(tags, req[r].data.value)
      taken == IF req[r].op = "TagModel.create" THEN existing # {}
               ELSE existing \ {req[r].id} # {}
  IN /\ pc[r] = "route:findByValue"
     /\ IF taken
          THEN Done(r, Returned("route:errors", FALSE, RetNull, FALSE))
          ELSE Goto(r, req[r].op) /\ UNCHANGED last
     /\ UNCHANGED <<store, req>>

\* the tag editor is saved: TagModel.bulkSave(tags) starts its transaction
CallBulkSave(r, L) ==
  /\ pc[r] = "idle"
  /\ req[r].calls < MaxCalls
  /\ req' = [req EXCEPT ![r] = [calls |-> req[r].calls + 1, op |-> "TagModel.bulkSave",
                                id |-> NULL, data |-> L, old |-> {},
                                pre |-> <<tags, place_tags>>, ret |-> RetNull,
                                existing |-> <<>>]]
  /\ Goto(r, "TagModel.bulkSave")
  /\ UNCHANGED <<store, last>>

\* bulkSave: BEGIN and SELECT * FROM tags
bulkSave_snapshot(r) ==
  /\ pc[r] = "TagModel.bulkSave"
  /\ req' = [req EXCEPT ![r].existing = tags]
  /\ Goto(r, "bulkSave:writes")
  /\ UNCHANGED <<store, last>>

\* bulkSave: the DELETE, the upserts and COMMIT; ROLLBACK when one of them
\* violates a constraint
bulkSave_writes(r) ==
  /\ pc[r] = "bulkSave:writes"
  /\ \E txn \in {BulkSaveTxnFrom(req[r].existing, tags, nextTagId, req[r].data)} :
       /\ txn.next <= MaxTagId + 1
       /\ IF txn.ok
            THEN /\ tags' = txn.t
                 /\ nextTagId' = txn.next
                 /\ place_tags' = CascadePlaceTags(place_tags, txn.kept)
                 /\ Done(r, [Returned("TagModel.bulkSave", TRUE, RetRows, TRUE)
                               EXCEPT !.stamped = BulkUpdates(req[r].existing, req[r].data)])
            ELSE /\ UNCHANGED <<tags, nextTagId, place_tags>>
                 /\ Done(r, Threw("TagModel.bulkSave", TRUE, FALSE))
  /\ UNCHANGED <<places, nextPlaceId, req>>

(***************************************************************************)
(* withTransaction, statement by statement.  The callback's statements run *)
(* on the client of the transaction: req[r].tx holds the tables as that    *)
(* client sees them, the committed tables plus the transaction's own       *)
(* writes.  COMMIT makes them the committed tables, ROLLBACK drops them.   *)
(* A statement that fails throws inside the callback; withTransaction      *)
(* catches the error, issues ROLLBACK and rethrows.                        *)
(***************************************************************************)

\* the committed tables as a transaction takes them over
Committed == [t |-> tags, next |-> nextTagId, p |-> places,
              nextPlace |-> nextPlaceId, pt |-> place_tags]

\* what COMMIT leaves in the committed tables
AfterCommit(committed, working) == working

\* a mutation of ROLLBACK: the writes of the failed transaction stay
AfterRollback_KeepsWrites(committed, working) == working

\* a mutation of ROLLBACK: the place rows of the failed transaction stay
AfterRollback_KeepsPlaces(committed, working) ==
  [committed EXCEPT !.p = working.p]

\* what ROLLBACK leaves in the committed tables
AfterRollback(committed, working) == committed

\* the first statement of the callback
FirstStatement(op, data) ==
  IF op = "TagModel.bulkSave" THEN "bulkSave:SELECT"
  ELSE IF op = "PlaceModel.create" THEN "PlaceModel.create:INSERT"
  ELSE IF HasColumns(data) THEN "PlaceModel.update:UPDATE"
  ELSE IF data.tags # UNDEF_T THEN "setTags:DELETE"
  ELSE "PlaceModel.findById"

\* a route handler calls an operation written with withTransaction
CallTx(r, op, id, data) ==
  /\ pc[r] = "idle"
  /\ req[r].calls < MaxCalls
  /\ req' = [req EXCEPT ![r] = [calls |-> req[r].calls + 1, op |-> op, id |-> id,
                                data |-> data, old |-> {},
                                pre |-> <<tags, places, place_tags>>,
                                ret |-> RetNull, tx |-> Committed,
                                existing |-> <<>>, i |-> 1, wrote |-> FALSE]]
  /\ Goto(r, "pool.connect")
  /\ last' = NoCall
  /\ UNCHANGED store

\* const client = await pool.connect()
tx_connect(r) ==
  /\ pc[r] = "pool.connect"
  /\ Goto(r, "BEGIN")
  /\ UNCHANGED <<store, last, req>>

\* await client.query('BEGIN')
tx_BEGIN(r) ==
  /\ pc[r] = "BEGIN"
  /\ req' = [req EXCEPT ![r].tx = Committed]
  /\ Goto(r, FirstStatement(req[r].op, req[r].data))
  /\ UNCHANGED <<store, last>>

\* request r's transaction goes on to statement `label` with tables `tx`
TxGoto(r, label, tx) ==
  /\ req' = [req EXCEPT ![r].tx = tx, ![r].wrote = (@ \/ tx # req[r].tx)]
  /\ Goto(r, label)
  /\ UNCHANGED <<store, last>>

\* a statement of the callback failed: the error is thrown to the catch
\* block of withTransaction
TxThrow(r) ==
  /\ Goto(r, "ROLLBACK")
  /\ UNCHANGED <<store, last, req>>

\* bulkSave: the statement after the SELECT / DELETE / an upsert of row i - 1
BulkLoop(L, i) == IF i <= Len(L) THEN "bulkSave:upsert" ELSE "bulkSave:SELECT all"

\* bulkSave: SELECT * FROM tags, existingByValue, newValues, toDelete
bulkSave_SELECT(r) ==
  LET L == req[r].data
      existing == req[r].tx.t
  IN /\ pc[r] = "bulkSave:SELECT"
     /\ req' = [req EXCEPT ![r].existing = existing]
     /\ Goto(r, IF BulkToDelete(existing, L) # {} THEN "bulkSave:DELETE"
                ELSE BulkLoop(L, 1))
     /\ UNCHANGED <<store, last>>

\* bulkSave: DELETE FROM tags WHERE id = ANY($1)
bulkSave_DELETE(r) ==
  LET tx == req[r].tx
      t2 == DeleteTags(tx.t, BulkToDelete(req[r].existing, req[r].data))
  IN /\ pc[r] = "bulkSave:DELETE"
     /\ TxGoto(r, BulkLoop(req[r].data, 1),
               [tx EXCEPT !.t = t2, !.pt = CascadePlaceTags(tx.pt, DOMAIN t2)])

\* bulkSave: one turn of `for (const tag of tags)`: the UPDATE or the INSERT
bulkSave_upsert(r) ==
  LET L == req[r].data
      i == req[r].i
      tx == req[r].tx
      st == BulkUpsert([ok |-> TRUE, t |-> tx.t, next |-> tx.next],
                       req[r].existing, SubSeq(L, i, i), 1)
  IN /\ pc[r] = "bulkSave:upsert"
     /\ IF st.ok
          THEN /\ st.next <= MaxTagId + 1
               /\ req' = [req EXCEPT ![r].tx = [tx EXCEPT !.t = st.t, !.next = st.next],
                                     ![r].wrote = (@ \/ st.t # tx.t),
                                     ![r].i = i + 1]
               /\ Goto(r, BulkLoop(L, i + 1))
               /\ UNCHANGED <<store, last>>
          ELSE TxThrow(r)

\* bulkSave: SELECT ... FROM tags ORDER BY sort_order ASC, value ASC
bulkSave_SELECT_all(r) ==
  /\ pc[r] = "bulkSave:SELECT all"
  /\ req' = [req EXCEPT ![r].ret = RetRows]
  /\ Goto(r, "COMMIT")
  /\ UNCHANGED <<store, last>>

\* the statement after the INSERT / UPDATE of table places
AfterPlaceRow(op, data) ==
  IF data.tags # UNDEF_T /\ (op = "PlaceModel.update" \/ Len(data.tags) > 0)
    THEN "setTags:DELETE"
    ELSE "PlaceModel.findById"

\* PlaceModel.create: INSERT INTO places ... RETURNING
place_INSERT(r) ==
  LET tx == req[r].tx
      id == tx.nextPlace
  IN /\ pc[r] = "PlaceModel.create:INSERT"
     /\ id <= MaxPlaceId
     /\ req' = [req EXCEPT ![r].tx = [tx EXCEPT !.p = (id :> PlaceRow(req[r].data)) @@ tx.p,
                                                !.nextPlace = id + 1],
                           ![r].wrote = TRUE,
                           ![r].id = id]
     /\ Goto(r, AfterPlaceRow(req[r].op, req[r].data))
     /\ UNCHANGED <<store, last>>

\* PlaceModel.update: UPDATE places SET ... WHERE id = $n RETURNING id;
\* if (result.rowCount === 0) return null
place_UPDATE(r) ==
  LET tx == req[r].tx
      id == req[r].id
  IN /\ pc[r] = "PlaceModel.update:UPDATE"
     /\ IF id \in DOMAIN tx.p
          THEN TxGoto(r, AfterPlaceRow(req[r].op, req[r].data),
                      [tx EXCEPT !.p = [tx.p EXCEPT ![id] = PatchedPlace(@, req[r].data)]])
          ELSE /\ req' = [req EXCEPT ![r].ret = RetNull]
               /\ Goto(r, "COMMIT")
               /\ UNCHANGED <<store, last>>

\* PlaceModel.setTags: DELETE FROM place_tags WHERE place_id = $1
setTags_DELETE(r) ==
  LET tx == req[r].tx
  IN /\ pc[r] = "setTags:DELETE"
     /\ TxGoto(r, IF Len(req[r].data.tags) = 0 THEN "PlaceModel.findById" ELSE "setTags:INSERT",
               [tx EXCEPT !.pt = {row \in tx.pt : row[1] # req[r].id}])

\* PlaceModel.setTags: INSERT INTO place_tags (place_id, tag_id)
\* SELECT $1, id FROM tags WHERE value = ANY($2)
setTags_INSERT(r) ==
  LET tx == req[r].tx
      tagIds == {i \in DOMAIN tx.t : tx.t[i].value \in ListValues(req[r].data.tags)}
  IN /\ pc[r] = "setTags:INSERT"
     /\ IF tagIds # {} /\ req[r].id \notin DOMAIN tx.p
          THEN TxThrow(r)
          ELSE TxGoto(r, "PlaceModel.findById",
                      [tx EXCEPT !.pt = @ \cup {<<req[r].id, i>> : i \in tagIds}])

\* PlaceModel.create / update: PlaceModel.findById(id), sent through
\* query() and so read from the committed tables
tx_findById(r) ==
  /\ pc[r] = "PlaceModel.findById"
  /\ req' = [req EXCEPT ![r].ret =
               RetPlace(PlaceModel_findById(places, place_tags, tags, req[r].id))]
  /\ Goto(r, "COMMIT")
  /\ UNCHANGED <<store, last>>

\* the statements of the callbacks
CallbackStatements ==
  {"bulkSave:SELECT", "bulkSave:DELETE", "bulkSave:upsert", "bulkSave:SELECT all",
   "PlaceModel.create:INSERT", "PlaceModel.update:UPDATE", "setTags:DELETE", "setTags:INSERT", "PlaceModel.findById"}

\* await client.query('COMMIT'); return result
tx_COMMIT(r) ==
  LET after == AfterCommit(Committed, req[r].tx)
  IN /\ pc[r] = "COMMIT"
     /\ tags' = after.t
     /\ nextTagId' = after.next
     /\ places' = after.p
     /\ nextPlaceId' = after.nextPlace
     /\ place_tags' = after.pt
     /\ Done(r, [Returned(req[r].op, req[r].id \in DOMAIN req[r].pre[2],
                          req[r].ret,
                          <<tags', places', place_tags'>> # req[r].pre)
                   EXCEPT !.input = req[r].data, !.id = req[r].id,
                          !.wrote = req[r].wrote,
                          !.stamped =
                            IF req[r].op = "TagModel.bulkSave"
                              THEN BulkUpdates(req[r].existing, req[r].data)
                            ELSE /\ req[r].op = "PlaceModel.update"
                                 /\ HasColumns(req[r].data)
                                 /\ req[r].id \in DOMAIN req[r].pre[2]])
     /\ req' = [req EXCEPT ![r] = Finished(r)]

\* catch (e) { await client.query('ROLLBACK'); throw e }
tx_ROLLBACK(r) ==
  LET after == AfterRollback(Committed, req[r].tx)
  IN /\ pc[r] = "ROLLBACK"
     /\ tags' = after.t
     /\ places' = after.p
     /\ place_tags' = after.pt
     /\ Done(r, [Threw(req[r].op, req[r].id \in DOMAIN req[r].pre[2],
                       <<tags', places', place_tags'>> # req[r].pre)
                   EXCEPT !.input = req[r].data, !.id = req[r].id,
                          !.wrote = req[r].wrote])
     /\ req' = [req EXCEPT ![r] = Finished(r)]
     /\ UNCHANGED <<nextTagId, nextPlaceId>>

\* pool.connect() rejects (no connection within connectionTimeoutMillis):
\* the error reaches the caller before the try block was entered
RejectConnect(r) ==
  /\ pc[r] = "pool.connect"
  /\ Done(r, [Threw(req[r].op, FALSE, FALSE) EXCEPT !.input = req[r].data, !.id = req[r].id])
  /\ req' = [req EXCEPT ![r] = Finished(r)]
  /\ UNCHANGED store

\* BEGIN or a statement of the callback rejects (the connection breaks,
\* the statement times out, the pooled re-read gets no connection)
RejectInTx(r) ==
  /\ pc[r] \in CallbackStatements \cup {"BEGIN"}
  /\ TxThrow(r)

\* one step of request r inside withTransaction
TxStatement(r) ==
  \/ tx_connect(r)
  \/ tx_BEGIN(r)
  \/ bulkSave_SELECT(r)
  \/ bulkSave_DELETE(r)
  \/ bulkSave_upsert(r)
  \/ bulkSave_SELECT_all(r)
  \/ place_INSERT(r)
  \/ place_UPDATE(r)
  \/ setTags_DELETE(r)
  \/ setTags_INSERT(r)
  \/ tx_findById(r)
  \/ tx_COMMIT(r)
  \/ tx_ROLLBACK(r)

(***************************************************************************)
(* The state after the migrations ran: empty tables, no request in flight. *)
(***************************************************************************)
Init ==
  /\ tags = <<>>
  /\ nextTagId = 1
  /\ places = <<>>
  /\ nextPlaceId = 1
  /\ place_tags = {}
  /\ last = NoCall
  /\ pc = Idle
  /\ req = NoLocals

(***************************************************************************)
(* SpecTagCUD: TagModel.create / update / delete, one completed call after *)
(* the other (no bulkSave).                                                *)
(***************************************************************************)
NextTagCUD ==
  \/ \E data \in HierarchyInputs : TagModel_create(data)
  \/ \E id \in TagIds, data \in HierarchyPatches : TagModel_update(id, data)
  \/ \E id \in TagIds : TagModel_delete(id)

SpecTagCUD == Init /\ [][NextTagCUD]_vars

\* has_children(T) is exactly "some stored tag has parent_tag_id = T.id"
HasChildrenExact(t) ==
  \A T \in DOMAIN t : t[T].has_children = (ChildrenOf(t, T) # {})

\* C1: after any sequence of completed TagModel.create / update / delete
\* calls, every tag's has_children flag is TRUE exactly when some stored
\* tag names it as its parent.
C1_HasChildrenAfterCUD == HasChildrenExact(tags)

\* C1 witness: a delete of an existing tag just completed; one parent keeps
\* its flag because another tag is still its child, and some tag has no child.
C1_Witness ==
  /\ last.op = "TagModel.delete" /\ last.found
  /\ \E P \in DOMAIN tags : tags[P].has_children /\ ChildrenOf(tags, P) \ {P} # {}
  /\ \E Q \in DOMAIN tags : ~ tags[Q].has_children

(***************************************************************************)
(* SpecTags: every operation of the tag store, one completed call after    *)
(* the other.  An edit that moves a tag takes the new parent from the      *)
(* parent dropdown, TagModel.getPotentialParents(id), or clears it.        *)
(***************************************************************************)
NextTags ==
  \/ \E data \in HierarchyInputs : TagModel_create(data)
  \/ \E id \in TagIds, data \in ReparentPatches :
        /\ data.parent_tag_id \in {UNDEF, NULL} \cup getPotentialParents(tags, id)
        /\ TagModel_update(id, data)
  \/ \E id \in TagIds : TagModel_delete(id)
  \/ \E L \in BulkLists : TagModel_bulkSave(L)

SpecTags == Init /\ [][NextTags]_vars

\* C2: after any sequence of completed create / update / delete / bulkSave
\* calls, has_children(T) is true if and only if at least one other tag
\* references T as its parent.
C2_HasChildrenAfterAnyOp ==
  \A T \in DOMAIN tags :
    tags[T].has_children = (ChildrenOf(tags, T) \ {T} # {})

\* what bulkSave(L) is to leave in the store: for each value of L, the
\* display and sort_order of its last row in L
BulkWant(L) ==
  {<<L[k].value, L[k].display, L[k].sort_order>> :
     k \in {i \in 1..Len(L) : \A m \in (i + 1)..Len(L) : L[m].value # L[i].value}}

\* C9: bulkSave is idempotent: when bulkSave(L) is called again with the
\* same list right after bulkSave(L) returned, the tag set (by value,
\* display, sort_order) is the one the first call left.
C9_BulkSaveIdempotent ==
  (last.op = "TagModel.bulkSave" /\ last.outcome = "returned" /\ last.repeat)
    => TagSet(tags) = last.first

\* C10: after a successful bulkSave(L) the stored values are exactly the
\* values of L, each tag carrying L's display and sort_order.
C10_BulkSaveReconciles ==
  (last.op = "TagModel.bulkSave" /\ last.outcome = "returned")
    => TagSet(tags) = BulkWant(last.input)

(***************************************************************************)
(* A store the admin has filled: TagModel.create of food, TagModel.create   *)
(* of its child pizza, PlaceModel.create of one place carrying both tags.  *)
(***************************************************************************)
SeedTags ==
  (1 :> Tag("food", "Food", 0, NULL, TRUE)) @@ (2 :> Tag("pizza", "Food", 0, 1, FALSE))

SeedPlace ==
  [name |-> "Joe's Bar", address |-> UNDEF_S,
   phone |-> <<"5", "5", "5", "-", "1", "2", "3", "4">>,
   notes |-> <<"a", "LF", "b">>, tags |-> <<"pizza", "food">>]

InitSeeded ==
  /\ tags = SeedTags
  /\ nextTagId = 3
  /\ places = (1 :> PlaceRow(SeedPlace))
  /\ nextPlaceId = 2
  /\ place_tags = {<<1, 1>>, <<1, 2>>}
  /\ last = NoCall
  /\ pc = Idle
  /\ req = NoLocals

\* a route handler of request r calls TagModel.create / update / delete;
\* an edit takes the new parent from the parent dropdown or clears it
CallTagModel(r) ==
  \/ \E data \in HierarchyInputs : Call(r, "TagModel.create", NULL, data)
  \/ \E id \in TagIds, data \in ReparentPatches :
        /\ data.parent_tag_id \in {UNDEF, NULL} \cup getPotentialParents(tags, id)
        /\ Call(r, "TagModel.update", id, data)
  \/ \E id \in TagIds : Call(r, "TagModel.delete", id, <<>>)

(***************************************************************************)
(* SpecConc: the requests call TagModel.create / update / delete at the    *)
(* same time; their statements interleave in any order.                    *)
(***************************************************************************)
NextConc == \E r \in Requests : CallTagModel(r) \/ Statement(r)

SpecConc == InitSeeded /\ [][NextConc]_vars

AllCompleted == \A r \in Requests : pc[r] = "idle"

\* C3: under any interleaving of the statements of concurrent
\* TagModel.create / update / delete calls, once all calls have completed
\* every tag's has_children is TRUE exactly when some tag names it as parent.
C3_HasChildrenAfterInterleaving == AllCompleted => HasChildrenExact(tags)

\* TagModel.findAll: SELECT ... FROM tags, read by a pooled connection
\* (the order of the rows left out)
TagModel_findAll(t) == {[id |-> i, row |-> t[i]] : i \in DOMAIN t}

\* request r has run the DELETE / UPDATE of its call and not yet the
\* recomputation of has_children that follows it
BeforeRecompute(r) ==
  pc[r] \in {"delete:updateHasChildren", "update:updateHasChildren(old)",
             "update:updateHasChildren(new)"}

\* C4: tag delete and tag update with a parent change are one transaction:
\* while such a call is between its DELETE / UPDATE and its recomputation
\* and no other call is in flight, what a reader gets from TagModel.findAll
\* has no parent whose has_children disagrees with the rows that name it.
C4_ReaderSeesNoIntermediateState ==
  \A r \in Requests :
    (BeforeRecompute(r) /\ \A q \in Requests \ {r} : pc[q] = "idle" /\ req[q].calls = 0)
      => \A P \in TagModel_findAll(tags) :
           P.row.has_children =
             (\E C \in TagModel_findAll(tags) : C.row.parent_tag_id = P.id)

(***************************************************************************)
(* SpecFail: one call at a time, and any statement of it may fail.         *)
(***************************************************************************)
NextFail ==
  \E r \in Requests :
    \/ AllCompleted /\ CallTagModel(r)
    \/ Statement(r)
    \/ Reject(r)

SpecFail == InitSeeded /\ [][NextFail]_vars

\* C5: when a statement of TagModel.create / update / delete fails, the
\* statements the call already ran are rolled back: the error reaches the
\* caller with table tags and table place_tags as they were before the call.
C5_FailedCallRolledBack ==
  (last.outcome = "threw" /\ last.op \in {"TagModel.create", "TagModel.update", "TagModel.delete"})
    => ~ last.changed

(***************************************************************************)
(* SpecPlaces: the place repository and the tag store, one completed call  *)
(* after the other.                                                        *)
(***************************************************************************)
SamplePlaceInputs ==
  {d \in PlaceInputs :
     /\ d.name = "Joe's Bar" /\ d.address = UNDEF_S
     /\ Len(d.phone) > 1
     /\ <<d.notes, d.tags>> \in {<<UNDEF_T, UNDEF_T>>, <<<<"a", "LF", "b">>, <<"pizza", "food">>>>}}

SamplePlacePatches ==
  {d \in PlacePatches :
     /\ d.address = UNDEF_S /\ d.notes = UNDEF_T
     /\ d.name \in {UNDEF_S, "Ray's"}
     /\ d.phone = UNDEF_T
     /\ d.tags \in {UNDEF_T, <<>>, <<"food">>, <<"bar">>}}

SampleTagInputs ==
  {d \in HierarchyInputs :
     \/ d.value = "food" /\ d.parent_tag_id = NULL
     \/ d.value = "pizza" /\ d.parent_tag_id = 1}

SampleTagPatches == {d \in ReparentPatches : d.parent_tag_id = NULL}

NextPlaces ==
  \/ \E data \in SampleTagInputs : TagModel_create(data)
  \/ \E id \in TagIds, data \in SampleTagPatches : TagModel_update(id, data)
  \/ \E id \in TagIds : TagModel_delete(id)
  \/ \E id \in TagIds : TagModel_findById_call(id)
  \/ \E data \in SamplePlaceInputs : PlaceModel_create(data)
  \/ \E id \in PlaceIds, data \in SamplePlacePatches : PlaceModel_update(id, data)
  \/ \E id \in PlaceIds : PlaceModel_delete(id)
  \/ \E id \in PlaceIds : PlaceModel_findById_call(id)

SpecPlaces == Init /\ [][NextPlaces]_vars

\* the tag values of a PlaceInput that name a stored tag
StoredTagValues(t, data) ==
  IF data.tags = UNDEF_T THEN {}
  ELSE {v \in ListValues(data.tags) : TagModel_findByValue(t, v) # {}}

\* C6: PlaceModel.create(input) returns a present record of the place it
\* inserted, with the normalized fields of the input and the input's tag
\* values that name a stored tag.
C6_CreateReturnsInsertedPlace ==
  (last.op = "PlaceModel.create" /\ last.outcome = "returned")
    => /\ last.ret.kind = "place"
       /\ last.ret.row = PlaceRow(last.input)
       /\ last.ret.tags = StoredTagValues(tags, last.input)

\* C7: PlaceModel.update(id, patch) on an existing place returns the
\* refreshed record: what PlaceModel.findById(id) returns once the call
\* has completed.
C7_UpdateReturnsRefreshedPlace ==
  (last.op = "PlaceModel.update" /\ last.outcome = "returned" /\ last.found)
    => last.ret = RetPlace(PlaceModel_findById(places, place_tags, tags, last.id))

\* C8: for an id that does not exist, PlaceModel.findById / update / delete
\* and TagModel.findById / update / delete return null or false, raise
\* nothing and leave the store unchanged.
C8_AbsentIdReturnsMarker ==
  (/\ last.op \in {"PlaceModel.findById", "PlaceModel.update", "PlaceModel.delete",
                   "TagModel.findById", "TagModel.update", "TagModel.delete"}
   /\ ~ last.found)
    => /\ last.outcome = "returned"
       /\ last.ret = RetNull \/ last.ret = RetBool(FALSE)
       /\ ~ last.changed

(***************************************************************************)
(* SpecTx: the operations written with withTransaction, one call at a      *)
(* time, statement by statement; any statement may fail.                   *)
(***************************************************************************)
\* rows given to bulkSave: a stored value, and a new value, alone or
\* under the first tag
TxFood == [value |-> "food", display |-> "Food", sort_order |-> 1, parent_tag_id |-> UNDEF]
TxBar == [value |-> "bar", display |-> "Pizza", sort_order |-> 1, parent_tag_id |-> UNDEF]
TxBarChild == [value |-> "bar", display |-> "Food", sort_order |-> 0, parent_tag_id |-> 1]

\* the lists given to bulkSave: the empty list, lists that keep or drop the
\* stored tags, and lists that name the new value twice
TxBulkLists ==
  {<<>>, <<TxFood>>, <<TxBar>>, <<TxFood, TxBarChild>>, <<TxBar, TxFood>>,
   <<TxBar, TxBar>>, <<TxBarChild, TxBar>>}

CallWithTransaction(r) ==
  \/ \E L \in TxBulkLists : CallTx(r, "TagModel.bulkSave", NULL, L)
  \/ \E data \in SamplePlaceInputs : CallTx(r, "PlaceModel.create", NULL, data)
  \/ \E id \in PlaceIds, data \in SamplePlacePatches :
        CallTx(r, "PlaceModel.update", id, data)

NextTx ==
  \E r \in Requests :
    \/ AllCompleted /\ CallWithTransaction(r)
    \/ TxStatement(r)
    \/ RejectConnect(r)
    \/ RejectInTx(r)

SpecTx == InitSeeded /\ [][NextTx]_vars

\* C11: bulkSave is all-or-nothing: when a statement inside it fails, the
\* error reaches the caller and tables tags and place_tags (and places) are
\* as they were before the call.
C11_BulkSaveAllOrNothing ==
  (last.op = "TagModel.bulkSave" /\ last.outcome = "threw") => ~ last.changed

\* C11 witness: a bulkSave whose list names the same new value twice threw
\* at the second INSERT, after the transaction had written.
C11_Witness ==
  /\ last.op = "TagModel.bulkSave" /\ last.outcome = "threw" /\ last.wrote
  /\ Len(last.input) = 2
  /\ last.input[1].value = last.input[2].value
  /\ last.input[1].parent_tag_id = UNDEF /\ last.input[2].parent_tag_id = UNDEF
  /\ TagModel_findByValue(tags, last.input[1].value) = {}

\* C12: when a statement of PlaceModel.create or PlaceModel.update fails
\* after earlier statements of the call succeeded, nothing of the call
\* persists - no place row, no field, no association - and the error
\* reaches the caller.
C12_PlaceWriteAllOrNothing ==
  (last.op \in {"PlaceModel.create", "PlaceModel.update"} /\ last.outcome = "threw")
    => ~ last.changed

\* C12 witness: an update of an existing place that carried a new name and
\* a new tag list threw after the transaction had written.
C12_Witness ==
  /\ last.op = "PlaceModel.update" /\ last.outcome = "threw"
  /\ last.found /\ last.wrote
  /\ last.input.name # UNDEF_S /\ last.input.tags # UNDEF_T
  /\ places[last.id].name # last.input.name

(***************************************************************************)
(* SpecAssoc: the operations that add and remove tags, places and their    *)
(* associations, one completed call after the other.                       *)
(***************************************************************************)
AssocPlaceInputs == {d \in SamplePlaceInputs : Len(d.phone) = 8}
AssocPlacePatches == {d \in SamplePlacePatches : d.name = UNDEF_S}

NextAssoc ==
  \/ \E data \in SampleTagInputs : TagModel_create(data)
  \/ \E id \in TagIds : TagModel_delete(id)
  \/ \E L \in TxBulkLists : TagModel_bulkSave(L)
  \/ \E data \in AssocPlaceInputs : PlaceModel_create(data)
  \/ \E id \in PlaceIds, data \in AssocPlacePatches : PlaceModel_update(id, data)
  \/ \E id \in PlaceIds : PlaceModel_delete(id)

SpecAssoc == InitSeeded /\ [][NextAssoc]_vars

\* no junction row is orphaned
NoOrphanRows(t, p, pt) ==
  \A row \in pt : row[1] \in DOMAIN p /\ row[2] \in DOMAIN t

\* C13: in every reachable state each place_tags row references an existing
\* place and an existing tag; after TagModel.delete(id) the tag, its child
\* tags and all their associations are gone, after PlaceModel.delete(id)
\* the place and all its associations are gone.
C13_NoOrphanedJunctionRows ==
  /\ NoOrphanRows(tags, places, place_tags)
  /\ (last.op = "TagModel.delete" /\ last.found)
       => /\ last.id \notin DOMAIN tags
          /\ \A j \in DOMAIN tags : tags[j].parent_tag_id # last.id
          /\ \A row \in place_tags : row[2] \notin last.removed[1]
  /\ (last.op = "PlaceModel.delete" /\ last.found)
       => /\ last.id \notin DOMAIN places
          /\ \A row \in place_tags : row[1] # last.id

\* C13 witness: TagModel.delete removed a tag together with a child tag, and
\* a place association of each of them.
C13_Witness ==
  /\ last.op = "TagModel.delete" /\ last.found
  /\ \E c \in last.removed[1] : c # last.id
  /\ \E row \in last.removed[2] : row[2] = last.id
  /\ \E row \in last.removed[2] : row[2] # last.id

\* C14: in every state reachable through TagModel.create and
\* TagModel.update, a tag whose parent_tag_id is set references an existing
\* tag that is top-level and is not the tag itself.
C14_ParentsAreTopLevel ==
  \A i \in DOMAIN tags :
    tags[i].parent_tag_id # NULL
      => /\ tags[i].parent_tag_id \in DOMAIN tags
         /\ tags[i].parent_tag_id # i
         /\ tags[tags[i].parent_tag_id].parent_tag_id = NULL

(***************************************************************************)
(* SpecParents: TagModel.create / update / delete, one completed call      *)
(* after the other, where an update that assigns a parent takes it from    *)
(* TagModel.getPotentialParents(id), read just before the update.          *)
(***************************************************************************)
NextParents ==
  \/ \E data \in HierarchyInputs : TagModel_create(data)
  \/ \E id \in TagIds, data \in ReparentPatches :
        /\ data.parent_tag_id \in {UNDEF, NULL} \cup getPotentialParents(tags, id)
        /\ TagModel_update(id, data)
  \/ \E id \in TagIds : TagModel_delete(id)

SpecParents == Init /\ [][NextParents]_vars

\* the tags reached from the tags of S by following parent_tag_id
RECURSIVE AncestorsOf(_, _)
AncestorsOf(t, S) ==
  LET up == S \cup {t[i].parent_tag_id : i \in {j \in S \cap DOMAIN t : t[j].parent_tag_id # NULL}}
  IN IF up = S THEN S ELSE AncestorsOf(t, up)

\* the parent relation has no cycle, self-loops included
NoParentCycle(t) ==
  \A i \in DOMAIN t :
    t[i].parent_tag_id # NULL => i \notin AncestorsOf(t, {t[i].parent_tag_id})

\* C15: getPotentialParents(x) is exactly the tags with no parent other
\* than x and other than x's children; and when every parent an update
\* assigns is taken from getPotentialParents(x) of the state just before
\* it, the parent relation never contains a cycle.
C15_PotentialParentsPreventCycles ==
  /\ \A x \in TagIds :
       getPotentialParents(tags, x) =
         {p \in DOMAIN tags : /\ tags[p].parent_tag_id = NULL
                              /\ p # x
                              /\ p \notin ChildrenOf(tags, x)}
  /\ NoParentCycle(tags)

\* C15 witness: an update has just moved a tag under a parent created after
\* it (a parent only an update can assign), and that parent is top-level.
C15_Witness ==
  /\ last.op = "TagModel.update" /\ last.changed
  /\ \E x \in DOMAIN tags :
       /\ tags[x].parent_tag_id > x
       /\ tags[x].parent_tag_id \in DOMAIN tags
       /\ tags[tags[x].parent_tag_id].has_children

(***************************************************************************)
(* SpecUnique: the tag form (POST /tags, POST /tags/:id) and the tag       *)
(* editor (bulkSave), requests in flight at the same time.                 *)
(***************************************************************************)
\* what the tag form passes to TagModel.create: value, display, sort_order
FormInputs ==
  {d \in TagInputs : d.display = "Food" /\ d.sort_order = 0 /\ d.parent_tag_id = UNDEF}

\* what the tag form passes to TagModel.update
FormPatches ==
  {d \in TagPatches : /\ d.value # UNDEF_S /\ d.display = "Food"
                      /\ d.sort_order = 0 /\ d.parent_tag_id = UNDEF}

NextUnique ==
  \E r \in Requests :
    \/ \E data \in FormInputs : CallRoute(r, "TagModel.create", NULL, data)
    \/ \E id \in TagIds, data \in FormPatches : CallRoute(r, "TagModel.update", id, data)
    \/ \E L \in TxBulkLists : CallBulkSave(r, L)
    \/ route_findByValue(r)
    \/ create_insert(r)
    \/ update_findById(r)
    \/ update_UPDATE(r)
    \/ bulkSave_snapshot(r)
    \/ bulkSave_writes(r)

SpecUnique == InitSeeded /\ [][NextUnique]_vars

\* no two stored tags have the same value
UniqueValues(t) ==
  \A i, j \in DOMAIN t : t[i].value = t[j].value => i = j

\* C16: in every reachable state, interleavings of tag create / update /
\* bulkSave requests that passed the route's duplicate check included, no
\* two stored tags have the same value; and the step in which a create, an
\* update or a bulkSave fails leaves table tags unchanged.
C16_ValuesStayUnique ==
  /\ [](UniqueValues(tags))
  /\ [][(last' # last /\ last'.outcome = "threw") => tags' = tags]_vars

\* C16 witness: two requests created the same new value at the same time;
\* both passed the route's lookup, one INSERT stored the tag, the other
\* failed.
C16_Witness ==
  /\ AllCompleted
  /\ last.op = "TagModel.create" /\ last.outcome = "threw"
  /\ \A r \in Requests : req[r].op = "TagModel.create" /\ req[r].pre[1] = SeedTags
  /\ req[1].data.value = req[2].data.value
  /\ Cardinality(TagModel_findByValue(tags, req[1].data.value)) = 1

(***************************************************************************)
(* The format of a tag value: the paths that create tags, one call at a    *)
(* time.  A value typed into a form is its sequence of characters.         *)
(***************************************************************************)
LowerLetters ==
  {"a", "b", "c", "d", "e", "f", "g", "h", "i", "j", "k", "l", "m", "n",
   "o", "p", "q", "r", "s", "t", "u", "v", "w", "x", "y", "z"}

\* the character class [a-z0-9-]
ValueChars == LowerLetters \cup Digits \cup {"-"}

\* /^[a-z0-9-]+$/.test(s)
MatchesValueFormat(s) ==
  /\ Len(s) >= 1
  /\ \A i \in 1..Len(s) : s[i] \in ValueChars

\* s.trim(): the white space at both ends is removed
RECURSIVE TrimStart(_)
TrimStart(s) ==
  IF s # <<>> /\ Head(s) = " " THEN TrimStart(Tail(s)) ELSE s

RECURSIVE TrimEnd(_)
TrimEnd(s) ==
  IF s # <<>> /\ s[Len(s)] = " " THEN TrimEnd(SubSeq(s, 1, Len(s) - 1)) ELSE s

Trim(s) == TrimEnd(TrimStart(s))

\* the characters of the values given to the creating paths: a well-formed
\* one, and one with capitals and a space
FormatValues == {"food", "Hot Dog"}

Spelling(v) ==
  CASE v = "food" -> <<"f", "o", "o", "d">>
    [] v = "pizza" -> <<"p", "i", "z", "z", "a">>
    [] v = "bar" -> <<"b", "a", "r">>
    [] v = "Hot Dog" -> <<"H", "o", "t", " ", "D", "o", "g">>

\* the string of a sequence of characters
Word(s) == CHOOSE v \in Values \cup FormatValues : Spelling(v) = s

\* what is typed into the value field: the values above, and the
\* well-formed one after a space
TypedValues ==
  {Spelling(v) : v \in FormatValues} \cup {<<" ">> \o Spelling("food"), <<>>}

FormatInputs ==
  [value : FormatValues, display : {"Food"}, sort_order : {0},
   parent_tag_id : {UNDEF}]

FormatBulkLists ==
  {<<>>} \cup {<<d>> : d \in FormatInputs}

\* POST /tags of the tag form: the value is required and tested against the
\* format, looked up, and TagModel.create is called when no error was found
AdminTagForm(value) ==
  LET trimmed == Trim(value)
      errors ==
        \/ value = <<>> \/ trimmed = <<>>
        \/ (value # <<>> /\ ~ MatchesValueFormat(trimmed))
        \/ (value # <<>> /\ TagModel_findByValue(tags, Word(trimmed)) # {})
  IN IF errors
       THEN /\ last' = Returned("route:errors", FALSE, RetNull, FALSE)
            /\ UNCHANGED <<store, pc, req>>
       ELSE TagModel_create([value |-> Word(trimmed), display |-> "Food",
                             sort_order |-> 0, parent_tag_id |-> UNDEF])

\* POST /tags of the tag editor ("save all tags"): the complete rows, each
\* field trimmed, are given to TagModel.bulkSave
SaveAllTags(typed) ==
  LET rows == [i \in DOMAIN typed |->
                 [typed[i] EXCEPT !.value = Word(Trim(Spelling(typed[i].value)))]]
  IN TagModel_bulkSave(rows)

NextFormat ==
  \/ \E data \in FormatInputs : TagModel_create(data)
  \/ \E value \in TypedValues : AdminTagForm(value)
  \/ \E L \in FormatBulkLists : SaveAllTags(L)
  \/ \E id \in TagIds : TagModel_delete(id)

SpecFormat == Init /\ [][NextFormat]_vars

\* the value of a stored tag is made of lowercase letters, digits and
\* hyphens only
WellFormed(t) ==
  \A i \in DOMAIN t : MatchesValueFormat(Spelling(t[i].value))

\* C17: on every path that creates tags (TagModel.create, the tag form, the
\* insert branch of bulkSave) a value with a character other than a
\* lowercase letter, a digit or a hyphen is refused and nothing is stored:
\* no stored tag ever has a malformed value.
C17_NoMalformedValueStored == WellFormed(tags)

(***************************************************************************)
(* TagModel.findAllStructured, called between completed create / update /  *)
(* delete calls.                                                           *)
(***************************************************************************)

\* every tag that is not a parent is listed as standalone, its own parent
\* or not
findAllStructured_ChildrenStandalone(t) ==
  LET allTags == TagModel_findAll(t)
  IN [parents |-> {[id |-> x.id, row |-> x.row,
                    children |-> {c \in allTags : c.row.parent_tag_id = x.id}] :
                     x \in {y \in allTags : y.row.has_children}},
      standalone |-> {x \in allTags : ~ x.row.has_children}]

\* TagModel.findAllStructured(): one findAll(), then the rows are split
TagModel_findAllStructured(t) ==
  LET allTags == TagModel_findAll(t)
      parentTags == {x \in allTags : x.row.has_children}
      childTags == {x \in allTags : x.row.parent_tag_id # NULL}
      standaloneTags == {x \in allTags : ~ x.row.has_children
                                         /\ x.row.parent_tag_id = NULL}
      \* the Map from a parent's id to the children that name it
      childrenByParent ==
        [parentId \in {c.row.parent_tag_id : c \in childTags} |->
           {c \in childTags : c.row.parent_tag_id = parentId}]
      parents ==
        {[id |-> x.id, row |-> x.row,
          children |-> IF x.id \in DOMAIN childrenByParent
                         THEN childrenByParent[x.id] ELSE {}] : x \in parentTags}
  IN [parents |-> parents, standalone |-> standaloneTags]

RetStructured(res) ==
  [kind |-> "structured", parents |-> res.parents, standalone |-> res.standalone]

TagModel_findAllStructured_call ==
  /\ last' = Returned("TagModel.findAllStructured", TRUE,
                      RetStructured(TagModel_findAllStructured(tags)), FALSE)
  /\ UNCHANGED <<store, pc, req>>

NextStructured ==
  \/ \E data \in HierarchyInputs : TagModel_create(data)
  \/ \E id \in TagIds, data \in HierarchyPatches : TagModel_update(id, data)
  \/ \E id \in TagIds : TagModel_delete(id)
  \/ TagModel_findAllStructured_call

SpecStructured == Init /\ [][NextStructured]_vars

\* the ids of a set of returned rows
IdsOf(rows) == {x.id : x \in rows}

\* C18: findAllStructured() returns as parents exactly the tags with
\* has_children true, each with exactly the tags whose parent_tag_id is its
\* id as children, and as standalone exactly the tags with no parent and
\* has_children false; a tag C stored under a top-level tag P created before
\* it is among the children of P in parents and is not in standalone.
C18_StructuredPartition ==
  last.op = "TagModel.findAllStructured" =>
    LET res == last.ret
    IN /\ IdsOf(res.parents) = {i \in DOMAIN tags : tags[i].has_children}
       /\ \A p \in res.parents :
            /\ p.row = tags[p.id]
            /\ IdsOf(p.children) = {i \in DOMAIN tags : tags[i].parent_tag_id = p.id}
            /\ \A c \in p.children : c.row = tags[c.id]
       /\ IdsOf(res.standalone) =
            {i \in DOMAIN tags : tags[i].parent_tag_id = NULL /\ ~ tags[i].has_children}
       /\ \A s \in res.standalone : s.row = tags[s.id]
       /\ \A P, C \in DOMAIN tags :
            (P < C /\ tags[P].parent_tag_id = NULL /\ tags[C].parent_tag_id = P)
              => /\ \E p \in res.parents : p.id = P /\ C \in IdsOf(p.children)
                 /\ C \notin IdsOf(res.standalone)

\* C18 witness: findAllStructured() was called after a top-level tag and
\* then a tag under it were created; the first is the one parent, the
\* second its one child, and nothing is standalone.
C18_Witness ==
  /\ last.op = "TagModel.findAllStructured"
  /\ nextTagId = 3 /\ DOMAIN tags = {1, 2}
  /\ tags[1].parent_tag_id = NULL /\ tags[2].parent_tag_id = 1
  /\ IdsOf(last.ret.parents) = {1}
  /\ \A p \in last.ret.parents : IdsOf(p.children) = {2}
  /\ last.ret.standalone = {}

(***************************************************************************)
(* PlaceModel.findAll, called between completed calls that write places,   *)
(* tags and their associations.                                            *)
(***************************************************************************)

\* the values of the tags joined to place i (array_agg over the LEFT JOINs)
PlaceTagValues(pt, t, i) ==
  {t[row[2]].value : row \in {x \in pt : x[1] = i /\ x[2] \in DOMAIN t}}

\* the WHERE clause put on the joined rows: a listed place carries the
\* tag asked for and no other
findAll_FilterJoinedRows(p, pt, t, tag) ==
  IF tag # UNDEF_S /\ tag # ""
    THEN {[id |-> i, row |-> p[i], tags |-> PlaceTagValues(pt, t, i) \cap {tag}] :
            i \in {j \in DOMAIN p : tag \in PlaceTagValues(pt, t, j)}}
    ELSE {[id |-> i, row |-> p[i], tags |-> PlaceTagValues(pt, t, i)] : i \in DOMAIN p}

\* PlaceModel.findAll(options): options.tag, when truthy, adds
\* WHERE p.id IN (SELECT pt2.place_id ... WHERE t2.value = $1); the rows are
\* grouped by place (their order by name left out)
PlaceModel_findAll(p, pt, t, tag) ==
  LET filtered == tag # UNDEF_S /\ tag # ""
      subselect == {row[1] : row \in {x \in pt : x[2] \in DOMAIN t /\ t[x[2]].value = tag}}
      listed == IF filtered THEN DOMAIN p \cap subselect ELSE DOMAIN p
  IN {[id |-> i, row |-> p[i], tags |-> PlaceTagValues(pt, t, i)] : i \in listed}

RetPlaces(rows) == [kind |-> "places", rows |-> rows]

\* req.query.tag of GET /api/places: absent, empty, or a value
TagFilters == {UNDEF_S, ""} \cup Values

PlaceModel_findAll_call(tag) ==
  /\ last' = [Returned("PlaceModel.findAll", TRUE,
                       RetPlaces(PlaceModel_findAll(places, place_tags, tags, tag)),
                       FALSE)
              EXCEPT !.input = <<tag>>]
  /\ UNCHANGED <<store, pc, req>>

NextList ==
  \/ \E data \in SampleTagInputs : TagModel_create(data)
  \/ \E id \in TagIds : TagModel_delete(id)
  \/ \E data \in AssocPlaceInputs : PlaceModel_create(data)
  \/ \E id \in PlaceIds, data \in AssocPlacePatches : PlaceModel_update(id, data)
  \/ \E id \in PlaceIds : PlaceModel_delete(id)
  \/ \E tag \in TagFilters : PlaceModel_findAll_call(tag)

SpecList == InitSeeded /\ [][NextList]_vars

\* the places that have an association with the tag whose value is v
PlacesTagged(v) ==
  {i \in DOMAIN places :
     \E row \in place_tags :
       row[1] = i /\ row[2] \in DOMAIN tags /\ tags[row[2]].value = v}

\* every returned place carries its columns and its complete tag list
CompleteTagLists(rows) ==
  \A x \in rows :
    /\ x.row = places[x.id]
    /\ x.tags = {tags[row[2]].value : row \in {y \in place_tags : y[1] = x.id}}

\* C19: findAll({tag: v}) with a non-empty v returns exactly the places
\* that have an association with the tag whose value is v, each with its
\* complete tag list; findAll() without a filter - and findAll({tag: ""}),
\* whose empty string counts as no filter - returns every place, those
\* with no tags included.
C19_FindAllByTag ==
  last.op = "PlaceModel.findAll" =>
    LET v == last.input[1]
        rows == last.ret.rows
    IN /\ CompleteTagLists(rows)
       /\ v \notin {UNDEF_S, ""} => IdsOf(rows) = PlacesTagged(v)
       /\ v \in {UNDEF_S, ""} => IdsOf(rows) = DOMAIN places

\* C19 witness: of two stored places findAll({tag: "pizza"}) returned one,
\* with both its tags; the other place has a tag and not this one.
C19_Witness ==
  /\ last.op = "PlaceModel.findAll" /\ last.input = <<"pizza">>
  /\ Cardinality(DOMAIN places) = 2
  /\ \E x \in last.ret.rows : last.ret.rows = {x} /\ x.tags = {"pizza", "food"}
  /\ \E i \in DOMAIN places : i \notin IdsOf(last.ret.rows) /\ PlaceTagValues(place_tags, tags, i) = {"food"}

\* C19 as stated: whatever v is given as the filter, the empty string
\* included, exactly the places associated with the tag of value v are
\* returned.
C19_FindAllAnyFilter ==
  (last.op = "PlaceModel.findAll" /\ last.input[1] # UNDEF_S)
     => IdsOf(last.ret.rows) = PlacesTagged(last.input[1])

(***************************************************************************)
(* The tag list of a place is replaced: PlaceModel.create and              *)
(* PlaceModel.update with tag lists that repeat a value or name a value    *)
(* no tag has.                                                             *)
(***************************************************************************)
ReplaceTagLists ==
  {<<>>, <<"food">>, <<"food", "food">>, <<"bar", "pizza">>, <<"bar">>}

ReplaceInputs ==
  {[SeedPlace EXCEPT !.tags = V] : V \in {UNDEF_T, <<>>, <<"pizza", "food">>, <<"food", "food">>}}

ReplacePatches ==
  {[name |-> UNDEF_S, address |-> UNDEF_S, phone |-> UNDEF_T, notes |-> notes,
    tags |-> V] : notes \in {UNDEF_T, <<>>}, V \in ReplaceTagLists \cup {UNDEF_T}}

NextReplace ==
  \/ \E data \in SampleTagInputs : TagModel_create(data)
  \/ \E id \in TagIds : TagModel_delete(id)
  \/ \E data \in ReplaceInputs : PlaceModel_create(data)
  \/ \E id \in PlaceIds, data \in ReplacePatches : PlaceModel_update(id, data)
  \/ \E id \in PlaceIds : PlaceModel_delete(id)

SpecReplace == InitSeeded /\ [][NextReplace]_vars

\* the tags associated with place i
TagsOfPlace(pt, i) == {row[2] : row \in {x \in pt : x[1] = i}}

\* the step is a PlaceModel.update of an existing place, or a
\* PlaceModel.create, given a tag list
ReplacesTags ==
  /\ last' # last
  /\ \/ last'.op = "PlaceModel.update" /\ last'.id \in DOMAIN places
     \/ last'.op = "PlaceModel.create"
  /\ last'.input.tags # UNDEF_T

\* C20: a PlaceModel.update(id, {tags: V}) of an existing place, or a create
\* with tags V, returns without error and leaves the place associated with
\* exactly the stored tags whose value is in V, whatever was associated
\* before: a value of V that no tag has is ignored, a repeated value gives
\* one association; the associations of every other place are unchanged.
C20_SetTagsReplaces ==
  [][ReplacesTags =>
       /\ last'.outcome = "returned"
       /\ TagsOfPlace(place_tags', last'.id) =
            {i \in DOMAIN tags' : tags'[i].value \in ListValues(last'.input.tags)}
       /\ \A row \in place_tags \cup place_tags' :
            row[1] # last'.id => (row \in place_tags <=> row \in place_tags')
     ]_vars

\* C20 witness: a place that had two tags was updated with a list that
\* repeats one value: it has the one association, and the other place still
\* has its two.
C20_Witness ==
  /\ last.op = "PlaceModel.update" /\ last.outcome = "returned"
  /\ last.input.tags = <<"food", "food">>
  /\ last.ret.kind = "place" /\ last.ret.tags = {"pizza", "food"}
  /\ Cardinality(TagsOfPlace(place_tags, last.id)) = 1
  /\ \E i \in DOMAIN places : i # last.id /\ Cardinality(TagsOfPlace(place_tags, i)) = 2

(***************************************************************************)
(* Partial updates: TagModel.update and PlaceModel.update with patches     *)
(* that supply any subset of the fields, on the seeded store.              *)
(***************************************************************************)
NoTagPatch ==
  [value |-> UNDEF_S, display |-> UNDEF_S, sort_order |-> UNDEF,
   parent_tag_id |-> UNDEF]

\* the empty patch, and patches that supply one field or two: a
\* sort_order of 0 or 1, a parent_tag_id of null or of the first tag, a
\* new value and display
PatchTagPatches ==
  {NoTagPatch,
   [NoTagPatch EXCEPT !.sort_order = 0],
   [NoTagPatch EXCEPT !.sort_order = 1],
   [NoTagPatch EXCEPT !.parent_tag_id = NULL],
   [NoTagPatch EXCEPT !.parent_tag_id = 1],
   [NoTagPatch EXCEPT !.value = "bar", !.display = "Pizza"]}

NoPlacePatch ==
  [name |-> UNDEF_S, address |-> UNDEF_S, phone |-> UNDEF_T, notes |-> UNDEF_T,
   tags |-> UNDEF_T]

PatchPlacePatches ==
  {NoPlacePatch,
   [NoPlacePatch EXCEPT !.name = "Ray's"],
   [NoPlacePatch EXCEPT !.address = ""],
   [NoPlacePatch EXCEPT !.address = "1 Ave A"],
   [NoPlacePatch EXCEPT !.tags = <<>>],
   [NoPlacePatch EXCEPT !.tags = <<"food">>],
   [NoPlacePatch EXCEPT !.notes = <<>>, !.tags = <<"food">>]}

NextPatch ==
  \/ \E id \in TagIds, data \in PatchTagPatches : TagModel_update(id, data)
  \/ \E id \in PlaceIds, data \in PatchPlacePatches : PlaceModel_update(id, data)

SpecPatch == InitSeeded /\ [][NextPatch]_vars

\* the step is TagModel.update(id, data) of a stored tag, returning
TagUpdateReturns(id, data) ==
  /\ id \in DOMAIN tags
  /\ TagModel_update(id, data)
  /\ last'.outcome = "returned"

\* the step is PlaceModel.update(id, data) of a stored place, returning
PlaceUpdateReturns(id, data) ==
  /\ id \in DOMAIN places
  /\ PlaceModel_update(id, data)
  /\ last'.outcome = "returned"

\* the fields of tag id after TagModel.update(id, data): the patch's value
\* where the field is present, the stored value where it is absent
TagFrame(id, data) ==
  /\ tags'[id].value = IF data.value = UNDEF_S THEN tags[id].value ELSE data.value
  /\ tags'[id].display = IF data.display = UNDEF_S THEN tags[id].display ELSE data.display
  /\ tags'[id].sort_order =
       IF data.sort_order = UNDEF THEN tags[id].sort_order ELSE data.sort_order
  /\ tags'[id].parent_tag_id =
       IF data.parent_tag_id = UNDEF THEN tags[id].parent_tag_id ELSE data.parent_tag_id
  /\ \A j \in DOMAIN tags \ {id} :
       /\ j \in DOMAIN tags'
       /\ [tags'[j] EXCEPT !.has_children = FALSE] = [tags[j] EXCEPT !.has_children = FALSE]
  /\ DOMAIN tags' = DOMAIN tags
  /\ UNCHANGED <<places, place_tags>>
  /\ EmptyTagPatch(data) => (UNCHANGED store /\ last'.ret.kind = "tag")

\* the fields of place id after PlaceModel.update(id, data)
PlaceFrame(id, data) ==
  /\ places'[id].name = IF data.name = UNDEF_S THEN places[id].name ELSE data.name
  /\ places'[id].address =
       IF data.address = UNDEF_S THEN places[id].address
       ELSE IF data.address = "" THEN NULL_S ELSE data.address
  /\ places'[id].phone =
       IF data.phone = UNDEF_T THEN places[id].phone ELSE normalizePhone(data.phone)
  /\ places'[id].notes =
       IF data.notes = UNDEF_T THEN places[id].notes ELSE toHtmlBreaks(data.notes)
  /\ \A j \in DOMAIN places \ {id} : j \in DOMAIN places' /\ places'[j] = places[j]
  /\ DOMAIN places' = DOMAIN places
  /\ UNCHANGED tags
  /\ data.tags = UNDEF_T => UNCHANGED place_tags
  /\ (~ HasColumns(data) /\ data.tags = UNDEF_T)
       => /\ UNCHANGED store
          /\ last'.ret = RetPlace(PlaceModel_findById(places, place_tags, tags, id))

\* C21: a partial update changes only the fields present in the patch: a
\* field given a falsy value (sort_order 0, parent_tag_id null, address "")
\* is applied, every absent field keeps its stored value, a place patch
\* without tags leaves the place's tags untouched, and the empty patch
\* changes nothing in the store and returns the current record.
C21_PartialUpdateFrame ==
  [][/\ last'.op = "TagModel.update"
          => \A id \in TagIds, data \in PatchTagPatches :
                TagUpdateReturns(id, data) => TagFrame(id, data)
     /\ last'.op = "PlaceModel.update"
          => \A id \in PlaceIds, data \in PatchPlacePatches :
                PlaceUpdateReturns(id, data) => PlaceFrame(id, data)
    ]_vars

\* C21 witness: the empty patch was given to PlaceModel.update and the
\* place came back as stored, after a patch {name} that left its two tags
\* alone and a tag patch {parent_tag_id: null} that was applied and left the
\* tag's value and display alone.
C21_Witness ==
  /\ last.op = "PlaceModel.update" /\ last.input = NoPlacePatch
  /\ last.outcome = "returned" /\ ~ last.changed
  /\ last.ret.kind = "place" /\ last.ret.row = places[last.id]
  /\ places[1].name = "Ray's" /\ TagsOfPlace(place_tags, 1) = {1, 2}
  /\ tags[2].parent_tag_id = NULL /\ tags[2].value = "pizza" /\ tags[2].display = "Food"

\* C22: every mutation stamps updated_at: a PlaceModel.update that changed
\* a stored field or the place's tag set (a patch of tags alone included),
\* and a TagModel.update that changed a stored field, leaves the record's
\* updated_at at the time of the call.
C22_MutationsStampUpdatedAt ==
  (/\ last.op \in {"PlaceModel.update", "TagModel.update"}
   /\ last.outcome = "returned"
   /\ last.changed)
    => last.stamped

(***************************************************************************)
(* Phone numbers: PlaceModel.create and PlaceModel.update given phones     *)
(* with punctuation, with 7, 10 and 11 digits, and with none.              *)
(***************************************************************************)
Phone212 == <<"(", "2", "1", "2", ")", " ", "5", "5", "5", "-", "1", "2", "3", "4">>
Phone7 == <<"5", "5", "5", "-", "1", "2", "3", "4">>
Phone11 == <<"1", "2", "1", "2", "5", "5", "5", "1", "2", "3", "4">>
PhoneDots == <<"2", "1", "2", ".", "5", "5", "5", ".", "9", "8", "7", "6">>
PhoneWord == <<"n", "/", "a">>

Phones == {Phone212, Phone7, Phone11, PhoneDots, PhoneWord, <<>>}

PhoneInputs ==
  {[name |-> "Joe's Bar", address |-> UNDEF_S, phone |-> ph, notes |-> UNDEF_T,
    tags |-> UNDEF_T] : ph \in Phones \cup {UNDEF_T}}

PhonePatches ==
  {[NoPlacePatch EXCEPT !.phone = ph] : ph \in Phones}

NextPhone ==
  \/ \E data \in PhoneInputs : PlaceModel_create(data)
  \/ \E id \in PlaceIds, data \in PhonePatches : PlaceModel_update(id, data)
  \/ \E id \in PlaceIds : PlaceModel_delete(id)

SpecPhone == Init /\ [][NextPhone]_vars

\* the phone the repository is to store for each of the inputs
ExpectedPhone(phone) ==
  CASE phone = Phone212 -> <<"2", "1", "2", "5", "5", "5", "1", "2", "3", "4">>
    [] phone = PhoneDots -> <<"2", "1", "2", "5", "5", "5", "9", "8", "7", "6">>
    [] OTHER -> NULL_T

\* C23: PlaceModel.create and PlaceModel.update store the same phone for
\* the same input: its digits when exactly 10 remain after every other
\* character is removed ("(212) 555-1234" gives "2125551234"), null
\* otherwise ("555-1234" gives null); every stored phone is null or 10
\* digits.
C23_PhoneNormalized ==
  /\ \A i \in DOMAIN places :
       \/ places[i].phone = NULL_T
       \/ /\ Len(places[i].phone) = 10
          /\ \A k \in 1..10 : places[i].phone[k] \in Digits
  /\ (/\ last.op \in {"PlaceModel.create", "PlaceModel.update"}
      /\ last.outcome = "returned"
      /\ last.id \in DOMAIN places
      /\ last.op = "PlaceModel.update" => last.input.phone # UNDEF_T)
       => places[last.id].phone = ExpectedPhone(last.input.phone)

\* C23 witness: a place created with "(212) 555-1234" holds "2125551234",
\* and the other place, which held a 10-digit phone, was updated with the
\* 7-digit "555-1234" and holds null.
C23_Witness ==
  /\ last.op = "PlaceModel.update" /\ last.input.phone = Phone7
  /\ last.id \in DOMAIN places /\ places[last.id].phone = NULL_T
  /\ last.ret.kind = "place" /\ last.ret.row.phone = ExpectedPhone(PhoneDots)
  /\ \E i \in DOMAIN places : places[i].phone = ExpectedPhone(Phone212)

(***************************************************************************)
(* Notes with line breaks: stored by PlaceModel.create, read back by the   *)
(* edit form.  A text is its sequence of characters, "LF" and "CR" the     *)
(* line feed and the carriage return.                                      *)
(***************************************************************************)
WhiteSpace == {" ", "LF", "CR"}

\* the length of the match of \s*\/?> at the head of text, 0 when there is
\* none
RECURSIVE BreakTail(_)
BreakTail(text) ==
  IF text = <<>> THEN 0
  ELSE IF Head(text) \in WhiteSpace
    THEN LET n == BreakTail(Tail(text)) IN IF n = 0 THEN 0 ELSE n + 1
  ELSE IF Head(text) = ">" THEN 1
  ELSE IF Head(text) = "/" /\ Len(text) >= 2 /\ text[2] = ">" THEN 2
  ELSE 0

\* the length of the match of /<br\s*\/?>/i at the head of text
BreakAtHead(text) ==
  IF /\ Len(text) >= 4
     /\ text[1] = "<" /\ text[2] \in {"b", "B"} /\ text[3] \in {"r", "R"}
     /\ BreakTail(SubSeq(text, 4, Len(text))) > 0
    THEN 3 + BreakTail(SubSeq(text, 4, Len(text)))
    ELSE 0

\* text.replace(/<br\s*\/?>/gi, '\n')
RECURSIVE FromHtmlBreaks(_)
FromHtmlBreaks(text) ==
  IF text = <<>> THEN <<>>
  ELSE IF BreakAtHead(text) > 0
    THEN <<"LF">> \o FromHtmlBreaks(SubSeq(text, BreakAtHead(text) + 1, Len(text)))
  ELSE <<Head(text)>> \o FromHtmlBreaks(Tail(text))

\* place.notes?.replace(/<br\s*\/?>/gi, '\n') || ''
EditableText(stored) ==
  IF stored = NULL_T THEN <<>> ELSE FromHtmlBreaks(stored)

\* texts with line breaks: bare line feeds, CR LF pairs, a break at the
\* end, and a text that holds the characters of a <br> tag
NotesTexts ==
  {<<"a", "LF", "b">>, <<"a", "CR", "LF", "b">>, <<"a", "LF", "LF">>,
   <<"<", "b", "r", ">", "LF", "b">>, <<"LF">>}

NotesInputs ==
  {[name |-> "Joe's Bar", address |-> UNDEF_S, phone |-> UNDEF_T, notes |-> text,
    tags |-> UNDEF_T] : text \in NotesTexts \cup {UNDEF_T}}

\* GET /places/:id/edit: the place is read and its notes are made editable
EditPlaceForm(id) ==
  LET rows == PlaceModel_findById(places, place_tags, tags, id)
  IN /\ last' = IF rows = {}
                  THEN [Returned("GET /places/:id/edit", FALSE, RetNull, FALSE)
                          EXCEPT !.id = id]
                  ELSE [Returned("GET /places/:id/edit", TRUE,
                                 [kind |-> "form",
                                  notes |-> EditableText(places[id].notes)], FALSE)
                          EXCEPT !.id = id]
     /\ UNCHANGED <<store, pc, req>>

NextNotes ==
  \/ \E data \in NotesInputs : PlaceModel_create(data)
  \/ \E id \in PlaceIds : EditPlaceForm(id)
  \/ \E id \in PlaceIds : PlaceModel_delete(id)

SpecNotes == Init /\ [][NextNotes]_vars

\* C24: a text with line breaks (bare LF or CR LF) stored by
\* PlaceModel.create and then read back by the edit form is the original
\* text, character for character.
C24_NotesRoundTrip ==
  [][(/\ last.op = "PlaceModel.create" /\ last.input.notes # UNDEF_T
      /\ last'.op = "GET /places/:id/edit" /\ last'.id = last.id)
       => /\ last'.found
          /\ last'.ret.notes = last.input.notes]_vars

(***************************************************************************)
(* The name of a place: the admin forms and the admin API, given bodies    *)
(* with a name, with a blank name and with none.                           *)
(***************************************************************************)
\* name.trim() of the names given
TrimName(name) ==
  CASE name = "  " -> ""
    [] name = " Ray's " -> "Ray's"
    [] OTHER -> name

RequestNames == {UNDEF_S, "", "  ", "Joe's Bar", " Ray's "}

\* req.body of the place routes: the name, and no other field but the tag
\* checkboxes
PlaceBodies == {[NoPlacePatch EXCEPT !.name = n] : n \in RequestNames}

\* `!name || name.trim() === ''`
NameMissing(body) == body.name = UNDEF_S \/ body.name = "" \/ TrimName(body.name) = ""

\* the PlaceInput the form handlers build: the fields trimmed, tags a list
FormPlace(body) ==
  [body EXCEPT !.name = TrimName(body.name),
               !.tags = IF body.tags = UNDEF_T THEN <<>> ELSE body.tags]

\* POST /places of the place form
FormCreatePlace(body) ==
  IF NameMissing(body)
    THEN /\ last' = Returned("route:errors", FALSE, RetNull, FALSE)
         /\ UNCHANGED <<store, pc, req>>
    ELSE PlaceModel_create(FormPlace(body))

\* POST /places/:id of the place form
FormUpdatePlace(id, body) ==
  IF NameMissing(body)
    THEN /\ last' = Returned("route:errors", FALSE, RetNull, FALSE)
         /\ UNCHANGED <<store, pc, req>>
    ELSE PlaceModel_update(id, FormPlace(body))

\* POST /api/places: PlaceModel.create(req.body)
ApiCreatePlace(body) == PlaceModel_create(body)

\* PUT /api/places/:id: PlaceModel.update(id, req.body)
ApiUpdatePlace(id, body) == PlaceModel_update(id, body)

NextNames ==
  \/ \E body \in PlaceBodies : FormCreatePlace(body)
  \/ \E id \in PlaceIds, body \in PlaceBodies : FormUpdatePlace(id, body)
  \/ \E body \in PlaceBodies : ApiCreatePlace(body)
  \/ \E id \in PlaceIds, body \in PlaceBodies : ApiUpdatePlace(id, body)
  \/ \E id \in PlaceIds : PlaceModel_delete(id)

SpecNames == Init /\ [][NextNames]_vars

\* C25: in every state reached through the place forms and the admin API,
\* every stored place has a name that is not empty after trimming.
C25_StoredNamesNotBlank ==
  \A i \in DOMAIN places :
    places[i].name \notin {UNDEF_S, NULL_S} /\ TrimName(places[i].name) # ""

(***************************************************************************)
(* withTransaction itself, statement by statement, for any callback: each  *)
(* query may resolve or reject, the callback may return or throw.  The     *)
(* request keeps the log of what it did with its client.                   *)
(***************************************************************************)
\* COMMIT sits outside the try block: its rejection skips the catch block
AfterRejection_CommitOutsideTry(stmt) ==
  IF stmt = "COMMIT" THEN "wt:finally(throw)" ELSE "wt:ROLLBACK"

\* where a rejection inside the try block leads: catch (e)
AfterRejection(stmt) == "wt:ROLLBACK"

\* request r calls withTransaction(callback)
CallWithTx(r) ==
  /\ pc[r] = "idle"
  /\ req[r].calls < MaxCalls
  /\ req' = [req EXCEPT ![r] = [calls |-> req[r].calls + 1, op |-> "withTransaction",
                                id |-> NULL, data |-> <<>>, old |-> {}, pre |-> <<>>,
                                ret |-> RetNull, log |-> <<>>, outcome |-> "none"]]
  /\ Goto(r, "wt:pool.connect")
  /\ UNCHANGED <<store, last>>

\* the log of request r with one more entry
Logged(r, stmt, how) == [req EXCEPT ![r].log = Append(@, <<stmt, how>>)]

\* const client = await pool.connect(): a client, or a rejection that
\* reaches the caller before the try block
wt_connect(r) ==
  /\ pc[r] = "wt:pool.connect"
  /\ \/ /\ req' = Logged(r, "pool.connect", "resolved")
        /\ Goto(r, "wt:BEGIN")
        /\ UNCHANGED last
     \/ /\ req' = [req EXCEPT ![r].outcome = "threw"]
        /\ Done(r, Threw("withTransaction", FALSE, FALSE))
  /\ UNCHANGED store

\* a query on the client, or the callback: it resolves and the function
\* goes on to `next`, or it rejects and control passes to the catch block
wt_await(r, label, stmt, next) ==
  /\ pc[r] = label
  /\ \/ /\ req' = Logged(r, stmt, "resolved")
        /\ Goto(r, next)
     \/ /\ req' = Logged(r, stmt, "rejected")
        /\ Goto(r, AfterRejection(stmt))
  /\ UNCHANGED <<store, last>>

wt_BEGIN(r) == wt_await(r, "wt:BEGIN", "BEGIN", "wt:callback")
wt_callback(r) == wt_await(r, "wt:callback", "callback", "wt:COMMIT")
wt_COMMIT(r) == wt_await(r, "wt:COMMIT", "COMMIT", "wt:finally(return)")

\* catch (e) { await client.query('ROLLBACK'); throw e }: whether ROLLBACK
\* resolves or rejects, an error leaves the catch block
wt_ROLLBACK(r) ==
  /\ pc[r] = "wt:ROLLBACK"
  /\ \E how \in {"resolved", "rejected"} : req' = Logged(r, "ROLLBACK", how)
  /\ Goto(r, "wt:finally(throw)")
  /\ UNCHANGED <<store, last>>

\* finally { client.release() }, and then the result or the error reaches
\* the caller
wt_finally(r) ==
  /\ pc[r] \in {"wt:finally(return)", "wt:finally(throw)"}
  /\ req' = [Logged(r, "release", "resolved") EXCEPT ![r].outcome =
               IF pc[r] = "wt:finally(return)" THEN "returned" ELSE "threw"]
  /\ Done(r, IF pc[r] = "wt:finally(return)"
               THEN Returned("withTransaction", TRUE, RetRows, FALSE)
               ELSE Threw("withTransaction", TRUE, FALSE))
  /\ UNCHANGED store

NextProtocol ==
  \E r \in Requests :
    \/ CallWithTx(r)
    \/ wt_connect(r)
    \/ wt_BEGIN(r)
    \/ wt_callback(r)
    \/ wt_COMMIT(r)
    \/ wt_ROLLBACK(r)
    \/ wt_finally(r)

SpecProtocol == Init /\ [][NextProtocol]_vars

\* the entries of a log that name statement stmt
Entries(log, stmt) == {k \in 1..Len(log) : log[k][1] = stmt}

\* the log of a call that returned its callback's result
CommittedLog ==
  <<<<"pool.connect", "resolved">>, <<"BEGIN", "resolved">>,
    <<"callback", "resolved">>, <<"COMMIT", "resolved">>, <<"release", "resolved">>>>

PoolMax == Cardinality(Requests)

\* the positions at which a call holds the client of its transaction
HoldsClient == {"pw:writes", "pw:findById", "pw:COMMIT", "pw:ROLLBACK"}

\* the connections of the pool that no call holds
FreeConnections == PoolMax - Cardinality({r \in Requests : pc[r] \in HoldsClient})

\* a route handler calls PlaceModel.create(data) or PlaceModel.update(id, data)
CallPlaceWrite(r, op) ==
  /\ pc[r] = "idle"
  /\ req[r].calls < MaxCalls
  /\ req' = [req EXCEPT ![r] = [NoLocals[r] EXCEPT !.calls = req[r].calls + 1,
                                                   !.op = op]]
  /\ Goto(r, "pw:pool.connect")
  /\ UNCHANGED <<store, last>>

\* withTransaction: pool.connect() resolves when a connection is free; with
\* no more callers than connections a caller that holds none finds one free
pw_connect(r) ==
  /\ pc[r] = "pw:pool.connect"
  /\ FreeConnections > 0
  /\ Goto(r, "pw:writes")
  /\ UNCHANGED <<store, last, req>>

\* BEGIN, the INSERT or UPDATE and setTags, all on the client
pw_writes(r) ==
  /\ pc[r] = "pw:writes"
  /\ Goto(r, "pw:findById")
  /\ UNCHANGED <<store, last, req>>

\* return PlaceModel.findById(id): query() is pool.query(), which takes a
\* free connection for the statement and gives it back
pw_findById(r) ==
  /\ pc[r] = "pw:findById"
  /\ FreeConnections > 0
  /\ Goto(r, "pw:COMMIT")
  /\ UNCHANGED <<store, last, req>>

\* pool.query() rejects after connectionTimeoutMillis without a free
\* connection: the callback throws
pw_findById_timeout(r) ==
  /\ pc[r] = "pw:findById"
  /\ FreeConnections = 0
  /\ Goto(r, "pw:ROLLBACK")
  /\ UNCHANGED <<store, last, req>>

\* COMMIT and return, or ROLLBACK and throw; the client is released
pw_end(r) ==
  /\ pc[r] \in {"pw:COMMIT", "pw:ROLLBACK"}
  /\ Done(r, IF pc[r] = "pw:COMMIT"
               THEN Returned(req[r].op, TRUE, RetNull, FALSE)
               ELSE Threw(req[r].op, TRUE, FALSE))
  /\ UNCHANGED <<store, req>>

NextPool ==
  \E r \in Requests :
    \/ \E op \in {"PlaceModel.create", "PlaceModel.update"} : CallPlaceWrite(r, op)
    \/ pw_connect(r)
    \/ pw_writes(r)
    \/ pw_findById(r)
    \/ pw_findById_timeout(r)
    \/ pw_end(r)

SpecPool == Init /\ [][NextPool]_vars

\* C27: in no reachable state is every connection of the pool held by a
\* call that is inside its transaction and waits for a further connection.
C27_NoPoolStarvation ==
  ~ (/\ FreeConnections = 0
     /\ \A r \in Requests : pc[r] \in HoldsClient => pc[r] = "pw:findById")

(***************************************************************************)
(* The places of a tag in the output of findAllStructured().               *)
(***************************************************************************)
\* how many times tag i is listed in res: as an entry of parents, in the
\* children of an entry of parents, as standalone
Appearances(res, i) ==
  Cardinality({p \in res.parents : p.id = i})
  + Cardinality({p \in res.parents : i \in IdsOf(p.children)})
  + Cardinality({x \in res.standalone : x.id = i})

\* C28: every tag findAll() returns is listed exactly once in the output of
\* findAllStructured(): as a parent, or among the children of exactly one
\* parent, or as standalone.
C28_EveryTagListedOnce ==
  last.op = "TagModel.findAllStructured" =>
    \A i \in DOMAIN tags : Appearances(last.ret, i) = 1

(***************************************************************************)
(* Two admin edits of a tag's parent: each reads getPotentialParents(x)    *)
(* for the parent dropdown of its form, and later submits the form, which  *)
(* runs TagModel.update statement by statement.                            *)
(***************************************************************************)
RetParents(ids) == [kind |-> "parents", ids |-> ids]

\* the edit form of tag x is built: TagModel.getPotentialParents(x)
edit_getPotentialParents(r, x) ==
  /\ pc[r] = "idle"
  /\ req[r].calls < MaxCalls
  /\ x \in DOMAIN tags
  /\ req' = [req EXCEPT ![r] = [NoLocals[r] EXCEPT
                                  !.calls = req[r].calls + 1,
                                  !.op = "TagModel.getPotentialParents",
                                  !.id = x,
                                  !.ret = RetParents(getPotentialParents(tags, x))]]
  /\ Goto(r, "edit:form")
  /\ UNCHANGED <<store, last>>

\* the form is submitted with a parent of the dropdown, or with none:
\* TagModel.update(x, { parent_tag_id })
edit_update(r) ==
  /\ pc[r] = "edit:form"
  /\ \E parent \in req[r].ret.ids \cup {NULL} :
       req' = [req EXCEPT ![r] = [@ EXCEPT
                 !.op = "TagModel.update",
                 !.data = [NoTagPatch EXCEPT !.parent_tag_id = parent],
                 !.pre = <<tags, place_tags>>,
                 !.ret = RetNull]]
  /\ Goto(r, "TagModel.update")
  /\ UNCHANGED <<store, last>>

\* the top-level tags the edits move
TopLevelInputs == {d \in HierarchyInputs : d.parent_tag_id = NULL}

NextEdits ==
  \/ \E data \in TopLevelInputs : AllCompleted /\ TagModel_create(data)
  \/ \E r \in Requests :
       \/ \E x \in TagIds : edit_getPotentialParents(r, x)
       \/ edit_update(r)
       \/ update_findById(r)
       \/ update_UPDATE(r)
       \/ update_updateHasChildren_old(r)
       \/ update_updateHasChildren_new(r)

SpecEdits == Init /\ [][NextEdits]_vars

\* C29: once two edits, each having read getPotentialParents(x) for its own
\* tag and applied TagModel.update with a parent of the list it read, have
\* completed, in whatever order their reads and updates ran, the parent
\* relation has no cycle.
C29_NoCycleAfterInterleavedEdits == AllCompleted => NoParentCycle(tags)

(***************************************************************************)
(* requireAuth, as the admin router runs it: the server mounts the router  *)
(* at /admin, the router serves its login and logout routes and puts       *)
(* requireAuth before every route below them.  A url is the sequence of    *)
(* its path segments.                                                      *)
(***************************************************************************)
\* str.startsWith('/' + prefix joined by '/' + '/'): the path has the
\* segments of prefix and goes on after them
StartsWithSegments(path, prefix) ==
  /\ Len(path) > Len(prefix)
  /\ SubSeq(path, 1, Len(prefix)) = prefix

\* app.use('/admin', adminRoutes): inside the router req.path is the url
\* with the mount path stripped; req.originalUrl keeps it
MountedPath(url) == SubSeq(url, 2, Len(url))

\* req.session: absent, or a session with or without userId and user
Sessions ==
  {[exists |-> FALSE, userId |-> UNDEF_S, user |-> UNDEF_S]}
  \cup [exists : {TRUE}, userId : {UNDEF_S, "u1"}, user : {UNDEF_S, "admin"}]

\* req.session?.userId && req.session?.user
SessionAuthenticated(session) ==
  session.exists /\ session.userId # UNDEF_S /\ session.user # UNDEF_S

\* requireAuth(req, res, next) for a request whose req.path is path
requireAuth(session, path) ==
  IF SessionAuthenticated(session)
    THEN [kind |-> "response", next |-> TRUE, status |-> 200,
          body |-> "handler", location |-> <<>>]
    ELSE IF StartsWithSegments(path, <<"admin", "api">>)
    THEN [kind |-> "response", next |-> FALSE, status |-> 401,
          body |-> "{error: 'Authentication required'}", location |-> <<>>]
    ELSE [kind |-> "response", next |-> FALSE, status |-> 302,
          body |-> "", location |-> <<"admin", "login">>]

\* the urls of the routes of the admin router below requireAuth, with 1 as
\* the :id, and one url that repeats the mount path
AdminUrls ==
  {<<"admin">>,
   <<"admin", "places">>, <<"admin", "places", "new">>,
   <<"admin", "places", "1">>, <<"admin", "places", "1", "edit">>,
   <<"admin", "places", "1", "delete">>,
   <<"admin", "tags">>, <<"admin", "tags", "new">>,
   <<"admin", "tags", "1">>, <<"admin", "tags", "1", "edit">>,
   <<"admin", "tags", "1", "delete">>,
   <<"admin", "api", "me">>, <<"admin", "api", "places">>,
   <<"admin", "api", "places", "1">>, <<"admin", "api", "tags">>,
   <<"admin", "api", "tags", "1">>,
   <<"admin", "admin", "api", "places">>}

Methods == {"GET", "POST", "PUT", "PATCH", "DELETE"}

\* a request to a url under /admin that is none of the router's login and
\* logout routes reaches router.use(requireAuth)
AdminRequest(method, url, session) ==
  /\ last' = [NoCall EXCEPT !.op = "requireAuth",
                            !.outcome = "returned",
                            !.input = <<method, url, session>>,
                            !.ret = requireAuth(session, MountedPath(url))]
  /\ UNCHANGED <<store, pc, req>>

NextAuth ==
  \E method \in Methods, url \in AdminUrls, session \in Sessions :
    AdminRequest(method, url, session)

SpecAuth == Init /\ [][NextAuth]_vars

\* C30: for a request whose session lacks userId or user, requireAuth does
\* not call the protected handler; it answers a request to a url under
\* /admin/api/ with status 401 and a JSON error, and every other admin
\* request with a redirect to /admin/login.
C30_UnauthenticatedRejected ==
  (last.op = "requireAuth" /\ ~ SessionAuthenticated(last.input[3])) =>
    /\ ~ last.ret.next
    /\ IF StartsWithSegments(last.input[2], <<"admin", "api">>)
         THEN last.ret.status = 401 /\ last.ret.body # ""
         ELSE last.ret.status = 302 /\ last.ret.location = <<"admin", "login">>

====
